---------------------------- MODULE Spec2Model ----------------------------
(***************************************************************************)
(* A model of the dot-matrix-rs Game Boy emulator core: the MMU address    *)
(* decoder (src/src/mmu.rs), the cartridge and joypad it owns              *)
(* (src/src/cart.rs, src/src/joypad.rs), the SM83 CPU with its interrupt   *)
(* controller and timers (src/src/cpu.rs) and the PPU scanline state       *)
(* machine (src/src/ppu.rs).                                               *)
(*                                                                         *)
(* Bytes are naturals in 0..255 and shorts naturals in 0..65535; every     *)
(* operator keeps the width the Rust code has.  The 64 KiB `ram` vector    *)
(* and the ROM image are kept sparse: a function from the addresses that   *)
(* differ from the initial contents to their bytes.                        *)
(***************************************************************************)
EXTENDS Integers, Sequences, FiniteSets, TLC

VARIABLES
    cpu,        \* the CPU struct: registers, pc, sp, ime, stopped, halted, timer accumulators
    mmu,        \* the MMU struct: ram, cart, joypad
    ppu,        \* the PPU struct: framebuffer, current_mode, current_cycles
    panicked,   \* the process has aborted on a Rust panic
    op,         \* the operation that made the last step
    ret,        \* the T-cycle count the last execute returned (0 for other operations)
    irq,        \* the interrupt bits the last PPU::update call requested
    clock,      \* bookkeeping: steps made, cycles fed to update / update_div, requests seen
    overflow_checks,  \* whether the build aborts on integer overflow (debug) or wraps (release)
    gb          \* the locals of GB::run: current_cycles, instruction_cycles

vars == <<cpu, mmu, ppu, panicked, op, ret, irq, clock, overflow_checks, gb>>

-----------------------------------------------------------------------------
(* Fixed-width arithmetic                                                  *)

RECURSIVE BitAnd(_, _)
BitAnd(x, y) ==
    IF x = 0 \/ y = 0 THEN 0
    ELSE (x % 2) * (y % 2) + 2 * BitAnd(x \div 2, y \div 2)

RECURSIVE BitOr(_, _)
BitOr(x, y) ==
    IF x = 0 THEN y
    ELSE IF y = 0 THEN x
    ELSE (IF (x % 2) + (y % 2) > 0 THEN 1 ELSE 0) + 2 * BitOr(x \div 2, y \div 2)

\* !x on a u8
Not8(x) == 255 - x

\* wrapping_add / wrapping_sub on u8 and u16
wrapping_add8(x, y) == (x + y) % 256
wrapping_sub8(x, y) == (x - y + 256) % 256
wrapping_add16(x, y) == (x + y) % 65536
wrapping_sub16(x, y) == (x - y + 65536) % 65536

\* wrapping_add on u32.  The accumulators it is used on stay below 2^31, the
\* largest integer of the model checker, so the sum is never reduced.
wrapping_add32(x, y) == x + y

\* (v as i8) as u16: the sign extension of a byte to 16 bits
SignExtend(v) == IF v >= 128 THEN v + 65280 ELSE v

-----------------------------------------------------------------------------
(* Memory-mapped register addresses                                        *)

InterruptFlag == 65295        \* 0xFF0F
InterruptEnable == 65535      \* 0xFFFF
DividerRegister == 65284      \* 0xFF04
LY == 65348                   \* 0xFF44
LCDC == 65344                 \* 0xFF40
JOYP == 65280                 \* 0xFF00

\* InterruptBit
VBlankBit == 0
STATBit == 1
TimerBit == 2
SerialBit == 3
JoypadBit == 4

\* FlagRegister
Zero == 7
Sub == 6
HalfCarry == 5
Carry == 4

SCREEN_HEIGHT == 144

-----------------------------------------------------------------------------
(* Cart, Joypad, MMU                                                       *)

\* A sparse byte vector: the bytes that differ from `dflt`.
VecGet(vec, addr, dflt) == IF addr \in DOMAIN vec THEN vec[addr] ELSE dflt

VecSet(vec, addr, value, dflt) ==
    IF value = dflt
    THEN [x \in (DOMAIN vec) \ {addr} |-> vec[x]]
    ELSE [x \in (DOMAIN vec) \cup {addr} |-> IF x = addr THEN value ELSE vec[x]]

\* vec![0; 0x10000] with ram[0xFF00] = 0xCF
RamInit(addr) == IF addr = JOYP THEN 207 ELSE 0

\* Cart::read_rom indexes self.rom; an index past the image is a Rust panic.
read_rom_index(cart, addr) ==
    IF addr <= 16383 THEN addr
    ELSE cart.rom_bank_selected * 16384 + (addr - 16384)

read_rom_panics(cart, addr) ==
    addr > 32767 \/ read_rom_index(cart, addr) >= cart.rom_len

read_rom(cart, addr) == VecGet(cart.rom, read_rom_index(cart, addr), 0)

enable_ram(cart, value) == [cart EXCEPT !.ram_enabled = (BitAnd(value, 15) = 10)]

select_rom_bank(cart, value) ==
    LET bank == BitAnd(value, 31)
    IN  [cart EXCEPT !.rom_bank_selected = IF bank = 0 THEN 1 ELSE bank]

\* Joypad::read
joypad_read(joypad) ==
    IF BitAnd(joypad.select_buttons, 32) = 0
    THEN BitAnd(255, BitOr(joypad.action_buttons, 240))
    ELSE IF BitAnd(joypad.select_buttons, 16) = 0
    THEN BitAnd(255, BitOr(joypad.direction_buttons, 240))
    ELSE 255

\* JoypadButton: the direction row, then the action row
DirectionButtons == <<"Right", "Left", "Up", "Down">>
ActionButtons == <<"A", "B", "Select", "Start">>

\* the JOYPAD_*_BIT mask of a button: bit i of its row
button_bit(button) ==
    LET i == CHOOSE k \in 1 .. 4 : DirectionButtons[k] = button \/ ActionButtons[k] = button
    IN  2 ^ (i - 1)

is_direction(button) == \E k \in 1 .. 4 : DirectionButtons[k] = button

\* Joypad::press_button: clears the button's bit in its row
press_button(joypad, button) ==
    IF is_direction(button)
    THEN [joypad EXCEPT !.direction_buttons = BitAnd(@, Not8(button_bit(button)))]
    ELSE [joypad EXCEPT !.action_buttons = BitAnd(@, Not8(button_bit(button)))]

\* Joypad::release_button: sets the button's bit in its row
release_button(joypad, button) ==
    IF is_direction(button)
    THEN [joypad EXCEPT !.direction_buttons = BitOr(@, button_bit(button))]
    ELSE [joypad EXCEPT !.action_buttons = BitOr(@, button_bit(button))]

\* Joypad::write
joypad_write(joypad, value) == [joypad EXCEPT !.select_buttons = BitAnd(value, 48)]

\* MMU::read_byte
read_byte(m, addr) ==
    IF addr = 65280 THEN joypad_read(m.joypad)
    ELSE IF addr = 65281 THEN 255
    ELSE IF addr <= 32767 THEN read_rom(m.cart, addr)
    ELSE VecGet(m.ram, addr, RamInit(addr))

read_byte_panics(m, addr) ==
    addr # 65280 /\ addr # 65281 /\ addr <= 32767 /\ read_rom_panics(m.cart, addr)

\* the bytes MMU::oam_dma_transfer copies: `for i in 0x0..0xA0`
DmaLength == 160

\* a transfer that stops one byte early
oam_dma_transfer_short(m, source_high) ==
    LET source == source_high * 256
        val(i) == read_byte(m, source + i)
        oam == 65024 .. 65024 + DmaLength - 2
        kept == (DOMAIN m.ram) \ oam
        set == {a \in oam : val(a - 65024) # RamInit(a)}
    IN  [m EXCEPT !.ram = [a \in kept \cup set |->
                              IF a \in oam THEN val(a - 65024) ELSE m.ram[a]]]

\* a transfer that also keeps the source page in the DMA register
oam_dma_transfer_latched(m, source_high) ==
    LET source == source_high * 256
        val(i) == IF i = 65350 THEN source_high ELSE read_byte(m, source + i - 65024)
        oam == (65024 .. 65024 + DmaLength - 1) \cup {65350}
        kept == (DOMAIN m.ram) \ oam
        set == {a \in oam : val(a) # RamInit(a)}
    IN  [m EXCEPT !.ram = [a \in kept \cup set |->
                              IF a \in oam THEN val(a) ELSE m.ram[a]]]

\* MMU::oam_dma_transfer: the 160 reads and the 160 stores into ram
oam_dma_transfer(m, source_high) ==
    LET source == source_high * 256
        val(i) == read_byte(m, source + i)
        oam == 65024 .. 65024 + DmaLength - 1
        kept == (DOMAIN m.ram) \ oam
        set == {a \in oam : val(a - 65024) # RamInit(a)}
    IN  [m EXCEPT !.ram = [a \in kept \cup set |->
                              IF a \in oam THEN val(a - 65024) ELSE m.ram[a]]]

\* a write_byte whose arm for the cartridge range stores into the image
write_byte_into_rom(m, addr, value) ==
    IF addr <= 32767
    THEN [m EXCEPT !.cart.rom = VecSet(m.cart.rom, read_rom_index(m.cart, addr), value, 0)]
    ELSE [m EXCEPT !.ram = VecSet(m.ram, addr, value, RamInit(addr))]

\* MMU::write_byte.  The first two arms are the half-open ranges 0x0..0x1FFF and
\* 0x2000..0x3FFF of the source.
write_byte(m, addr, value) ==
    IF addr < 8191 THEN [m EXCEPT !.cart = enable_ram(m.cart, value)]
    ELSE IF addr >= 8192 /\ addr < 16383
    THEN [m EXCEPT !.cart = select_rom_bank(m.cart, value)]
    ELSE IF addr = 65280 THEN [m EXCEPT !.joypad = joypad_write(m.joypad, value)]
    ELSE IF addr = 65350 THEN oam_dma_transfer(m, value)
    ELSE IF addr <= 32767 THEN m
    ELSE [m EXCEPT !.ram = VecSet(m.ram, addr, value, RamInit(addr))]

\* MMU::read_short; addr + 1 is a plain u16 addition
read_short(m, addr) == read_byte(m, addr) + 256 * read_byte(m, (addr + 1) % 65536)

\* a write_short that stores the high byte first
write_short_high_first(m, addr, value) ==
    write_byte(write_byte(m, addr, value \div 256), (addr + 1) % 65536, value % 256)

\* MMU::write_short: low byte first
write_short(m, addr, value) ==
    write_byte(write_byte(m, addr, value % 256), (addr + 1) % 65536, value \div 256)

-----------------------------------------------------------------------------
(* CPU: registers and flags                                                *)

get_flag(c, flag) == BitAnd(c.f, 2 ^ flag) \div (2 ^ flag)

set_flag(c, flag, value) ==
    IF value
    THEN [c EXCEPT !.f = BitOr(c.f, 2 ^ flag)]
    ELSE [c EXCEPT !.f = BitAnd(c.f, Not8(2 ^ flag))]

\* the four set_flag calls the arithmetic helpers make, in their order Z, N, H, C
set_znhc(c, z, n, h, cy) ==
    set_flag(set_flag(set_flag(set_flag(c, Zero, z), Sub, n), HalfCarry, h), Carry, cy)

\* the three set_flag calls of the helpers that leave Carry alone
set_znh(c, z, n, h) == set_flag(set_flag(set_flag(c, Zero, z), Sub, n), HalfCarry, h)

get_af(c) == c.a * 256 + c.f
get_bc(c) == c.b * 256 + c.c
get_de(c) == c.d * 256 + c.e
get_hl(c) == c.h * 256 + c.l

set_af(c, value) == [c EXCEPT !.a = value \div 256, !.f = value % 256]
set_bc(c, value) == [c EXCEPT !.b = value \div 256, !.c = value % 256]
set_de(c, value) == [c EXCEPT !.d = value \div 256, !.e = value % 256]
set_hl(c, value) == [c EXCEPT !.h = value \div 256, !.l = value % 256]

\* CPU::request_interrupt
request_interrupt(m, interrupt_bit) ==
    write_byte(m, InterruptFlag, BitOr(read_byte(m, InterruptFlag), 2 ^ interrupt_bit))

\* CPU::pop: the value read, and the state after it
pop_val(s) == read_short(s.mmu, s.cpu.sp)

\* a pop that moves SP by one byte only
pop_one(s) == [s EXCEPT !.cpu.sp = wrapping_add16(s.cpu.sp, 1)]

pop(s) == [s EXCEPT !.cpu.sp = wrapping_add16(s.cpu.sp, 2)]

\* CPU::push
push(s, value) ==
    LET sp == wrapping_sub16(s.cpu.sp, 2)
    IN  [cpu |-> [s.cpu EXCEPT !.sp = sp], mmu |-> write_short(s.mmu, sp, value)]

-----------------------------------------------------------------------------
(* CPU: arithmetic helpers.  Those that return a byte give [val, cpu].     *)

inc(c, reg) ==
    LET result == wrapping_add8(reg, 1)
    IN  [val |-> result, cpu |-> set_znh(c, result = 0, FALSE, BitAnd(result, 15) = 0)]

dec(c, reg) ==
    LET result == wrapping_sub8(reg, 1)
    IN  [val |-> result, cpu |-> set_znh(c, result = 0, TRUE, BitAnd(result, 15) = 15)]

rlca(c) ==
    LET new_carry == c.a \div 128
    IN  set_znhc([c EXCEPT !.a = BitOr((c.a * 2) % 256, new_carry)],
                 FALSE, FALSE, FALSE, new_carry = 1)

rrca(c) ==
    LET new_carry == c.a % 2
    IN  set_znhc([c EXCEPT !.a = BitOr(c.a \div 2, new_carry * 128)],
                 FALSE, FALSE, FALSE, new_carry = 1)

rla(c) ==
    LET old_carry == get_flag(c, Carry)
        new_carry == c.a \div 128
    IN  set_znhc([c EXCEPT !.a = BitOr((c.a * 2) % 256, old_carry)],
                 FALSE, FALSE, FALSE, new_carry = 1)

rra(c) ==
    LET old_carry == get_flag(c, Carry)
        new_carry == c.a % 2
    IN  set_znhc([c EXCEPT !.a = BitOr(c.a \div 2, old_carry * 128)],
                 FALSE, FALSE, FALSE, new_carry = 1)

rlc(c, reg) ==
    LET new_carry == reg \div 128
        result == BitOr((reg * 2) % 256, new_carry)
    IN  [val |-> result, cpu |-> set_znhc(c, result = 0, FALSE, FALSE, new_carry = 1)]

rrc(c, reg) ==
    LET new_carry == reg % 2
        result == BitOr(reg \div 2, new_carry * 128)
    IN  [val |-> result, cpu |-> set_znhc(c, result = 0, FALSE, FALSE, new_carry = 1)]

rl(c, reg) ==
    LET old_carry == get_flag(c, Carry)
        new_carry == reg \div 128
        result == BitOr((reg * 2) % 256, old_carry)
    IN  [val |-> result, cpu |-> set_znhc(c, result = 0, FALSE, FALSE, new_carry = 1)]

rr(c, reg) ==
    LET old_carry == get_flag(c, Carry)
        new_carry == reg % 2
        result == BitOr(reg \div 2, old_carry * 128)
    IN  [val |-> result, cpu |-> set_znhc(c, result = 0, FALSE, FALSE, new_carry = 1)]

sla(c, reg) ==
    LET new_carry == reg \div 128
        result == (reg * 2) % 256
    IN  [val |-> result, cpu |-> set_znhc(c, result = 0, FALSE, FALSE, new_carry = 1)]

sra(c, reg) ==
    LET new_carry == BitAnd(reg, 128)
        result == BitOr(reg \div 2, new_carry)
    IN  [val |-> result, cpu |-> set_znhc(c, result = 0, FALSE, FALSE, reg % 2 = 1)]

swap(c, reg) ==
    LET result == BitOr(reg \div 16, (reg * 16) % 256)
    IN  [val |-> result, cpu |-> set_znhc(c, result = 0, FALSE, FALSE, FALSE)]

srl(c, value) ==
    LET carry == value % 2
        result == value \div 2
    IN  [val |-> result, cpu |-> set_znhc(c, result = 0, FALSE, FALSE, carry = 1)]

bit(c, b, value) == set_znh(c, BitAnd(value, 2 ^ b) = 0, FALSE, TRUE)

res(b, value) == BitAnd(value, Not8(2 ^ b))

set(b, value) == BitOr(value, 2 ^ b)

\* an add_a whose half carry is the decimal carry of the low digits
add_a_decimal_half(c, value) ==
    LET result == wrapping_add8(c.a, value)
    IN  [set_znhc(c, result = 0, FALSE,
                  BitAnd(c.a, 15) + BitAnd(value, 15) > 9,
                  c.a + value > 255)
         EXCEPT !.a = result]

add_a(c, value) ==
    LET result == wrapping_add8(c.a, value)
    IN  [set_znhc(c, result = 0, FALSE,
                  BitAnd(c.a, 15) + BitAnd(value, 15) > 15,
                  c.a + value > 255)
         EXCEPT !.a = result]

add_hl(c, value) ==
    LET result == wrapping_add16(get_hl(c), value)
        c1 == set_flag(c, Sub, FALSE)
        c2 == set_flag(c1, HalfCarry, BitAnd(get_hl(c), 4095) + BitAnd(value, 4095) > 4095)
        c3 == set_flag(c2, Carry, get_hl(c) + value > 65535)
    IN  set_hl(c3, result)

\* an adc whose half carry leaves the carry flag out
adc_half_without_carry(c, value) ==
    LET carry == get_flag(c, Carry)
        result == wrapping_add8(wrapping_add8(c.a, value), carry)
    IN  [set_znhc(c, result = 0, FALSE,
                  BitAnd(c.a, 15) + BitAnd(value, 15) > 15,
                  c.a + value + carry > 255)
         EXCEPT !.a = result]

adc(c, value) ==
    LET carry == get_flag(c, Carry)
        result == wrapping_add8(wrapping_add8(c.a, value), carry)
    IN  [set_znhc(c, result = 0, FALSE,
                  BitAnd(c.a, 15) + BitAnd(value, 15) + carry > 15,
                  c.a + value + carry > 255)
         EXCEPT !.a = result]

sub(c, value) ==
    LET result == wrapping_sub8(c.a, value)
    IN  [set_znhc(c, result = 0, TRUE,
                  BitAnd(c.a, 15) < BitAnd(value, 15),
                  c.a < value)
         EXCEPT !.a = result]

\* an add_signed whose carry is the carry out of the 16-bit sum
add_signed_wide_carry(c, value) ==
    LET result == wrapping_add16(c.sp, SignExtend(value))
    IN  [set_znhc(c, FALSE, FALSE,
                  BitAnd(c.sp, 15) + BitAnd(SignExtend(value), 15) > 15,
                  c.sp + SignExtend(value) > 65535)
         EXCEPT !.sp = result]

\* value is the i8 operand given as its byte
add_signed(c, value) ==
    LET result == wrapping_add16(c.sp, SignExtend(value))
    IN  [set_znhc(c, FALSE, FALSE,
                  BitAnd(c.sp, 15) + BitAnd(SignExtend(value), 15) > 15,
                  BitAnd(c.sp, 255) + BitAnd(SignExtend(value), 255) > 255)
         EXCEPT !.sp = result]

sbc(c, value) ==
    LET carry == get_flag(c, Carry)
        result == wrapping_sub8(wrapping_sub8(c.a, value), carry)
    IN  [set_znhc(c, result = 0, TRUE,
                  BitAnd(c.a, 15) < BitAnd(value, 15) + carry,
                  c.a < value + carry)
         EXCEPT !.a = result]

and(c, value) ==
    LET a == BitAnd(c.a, value)
    IN  set_znhc([c EXCEPT !.a = a], a = 0, FALSE, TRUE, FALSE)

xor(c, value) ==
    LET a == BitOr(c.a, value) - BitAnd(c.a, value)
    IN  set_znhc([c EXCEPT !.a = a], a = 0, FALSE, FALSE, FALSE)

or(c, value) ==
    LET a == BitOr(c.a, value)
    IN  set_znhc([c EXCEPT !.a = a], a = 0, FALSE, FALSE, FALSE)

cp(c, value) ==
    set_znhc(c, c.a = value, TRUE, BitAnd(c.a, 15) < BitAnd(value, 15), c.a < value)

\* a daa that corrects the high digit on the carry flag only
daa_on_carry_only(c) ==
    LET half_carry == get_flag(c, HalfCarry)
        carry == get_flag(c, Carry)
        subtract == get_flag(c, Sub)
        low == (subtract = 0 /\ BitAnd(c.a, 15) > 9) \/ half_carry = 1
        high == carry = 1
        offset == BitOr(IF low THEN 6 ELSE 0, IF high THEN 96 ELSE 0)
        a == IF subtract = 0 THEN wrapping_add8(c.a, offset) ELSE wrapping_sub8(c.a, offset)
        c1 == set_flag([c EXCEPT !.a = a], Zero, a = 0)
        c2 == set_flag(c1, HalfCarry, FALSE)
    IN  set_flag(c2, Carry, high)

daa(c) ==
    LET half_carry == get_flag(c, HalfCarry)
        carry == get_flag(c, Carry)
        subtract == get_flag(c, Sub)
        low == (subtract = 0 /\ BitAnd(c.a, 15) > 9) \/ half_carry = 1
        high == (subtract = 0 /\ c.a > 153) \/ carry = 1
        offset == BitOr(IF low THEN 6 ELSE 0, IF high THEN 96 ELSE 0)
        a == IF subtract = 0 THEN wrapping_add8(c.a, offset) ELSE wrapping_sub8(c.a, offset)
        c1 == set_flag([c EXCEPT !.a = a], Zero, a = 0)
        c2 == set_flag(c1, HalfCarry, FALSE)
    IN  set_flag(c2, Carry, high)

cpl(c) == set_flag(set_flag([c EXCEPT !.a = Not8(c.a)], Sub, TRUE), HalfCarry, TRUE)

-----------------------------------------------------------------------------
(* CPU: execute_cb and execute.  s is [cpu, mmu]; the result adds cycles.  *)

\* The operand the low three bits of an opcode select: b c d e h l (hl) a
get_r(s, i) ==
    CASE i = 0 -> s.cpu.b
      [] i = 1 -> s.cpu.c
      [] i = 2 -> s.cpu.d
      [] i = 3 -> s.cpu.e
      [] i = 4 -> s.cpu.h
      [] i = 5 -> s.cpu.l
      [] i = 6 -> read_byte(s.mmu, get_hl(s.cpu))
      [] i = 7 -> s.cpu.a

set_r(s, i, v) ==
    CASE i = 0 -> [s EXCEPT !.cpu.b = v]
      [] i = 1 -> [s EXCEPT !.cpu.c = v]
      [] i = 2 -> [s EXCEPT !.cpu.d = v]
      [] i = 3 -> [s EXCEPT !.cpu.e = v]
      [] i = 4 -> [s EXCEPT !.cpu.h = v]
      [] i = 5 -> [s EXCEPT !.cpu.l = v]
      [] i = 6 -> [s EXCEPT !.mmu = write_byte(s.mmu, get_hl(s.cpu), v)]
      [] i = 7 -> [s EXCEPT !.cpu.a = v]

\* a helper result [val, cpu] stored back into operand i
store_r(s, i, r) == set_r([s EXCEPT !.cpu = r.cpu], i, r.val)

with_cycles(s, n) == [cpu |-> s.cpu, mmu |-> s.mmu, cycles |-> n]

\* the byte a CB operation stores back (BIT stores nothing)
cb_val(s, opcode) ==
    LET grp == opcode \div 8
        v == get_r(s, opcode % 8)
    IN  CASE grp = 0 -> rlc(s.cpu, v).val
          [] grp = 1 -> rrc(s.cpu, v).val
          [] grp = 2 -> rl(s.cpu, v).val
          [] grp = 3 -> rr(s.cpu, v).val
          [] grp = 4 -> sla(s.cpu, v).val
          [] grp = 5 -> sra(s.cpu, v).val
          [] grp = 6 -> swap(s.cpu, v).val
          [] grp = 7 -> srl(s.cpu, v).val
          [] grp \in 8 .. 15 -> v
          [] grp \in 16 .. 23 -> res(grp % 8, v)
          [] grp \in 24 .. 31 -> set(grp % 8, v)

\* CPU::execute_cb
execute_cb(s, opcode) ==
    LET i == opcode % 8
        grp == opcode \div 8
        b == grp % 8
        v == get_r(s, i)
        shifted == CASE grp = 0 -> rlc(s.cpu, v)
                     [] grp = 1 -> rrc(s.cpu, v)
                     [] grp = 2 -> rl(s.cpu, v)
                     [] grp = 3 -> rr(s.cpu, v)
                     [] grp = 4 -> sla(s.cpu, v)
                     [] grp = 5 -> sra(s.cpu, v)
                     [] grp = 6 -> swap(s.cpu, v)
                     [] grp = 7 -> srl(s.cpu, v)
    IN  IF opcode < 64 THEN with_cycles(store_r(s, i, shifted), IF i = 6 THEN 16 ELSE 8)
        ELSE IF opcode < 128
        THEN with_cycles([s EXCEPT !.cpu = bit(s.cpu, b, v)], IF i = 6 THEN 12 ELSE 8)
        ELSE IF opcode < 192
        THEN with_cycles(set_r(s, i, res(b, v)), IF i = 6 THEN 16 ELSE 8)
        ELSE with_cycles(set_r(s, i, set(b, v)), IF i = 6 THEN 16 ELSE 8)

\* The opcodes with no arm in execute: the match ends in unreachable!()
UndefinedOpcodes == {211, 219, 221, 227, 228, 235, 236, 237, 244, 252, 253}

\* OPCODES[opcode].bytes of consts.rs: the SM83 instruction lengths
OPCODES_bytes(opcode) ==
    IF opcode \in {1, 17, 33, 49, 8, 194, 195, 196, 202, 204, 205, 210, 212, 218, 220, 234, 250}
    THEN 3
    ELSE IF opcode \in {6, 14, 22, 30, 38, 46, 54, 62, 16, 24, 32, 40, 48, 56,
                        198, 206, 214, 222, 230, 238, 246, 254, 224, 240, 232, 248}
    THEN 2
    ELSE 1

\* CB_OPCODES[arg].bytes of consts.rs: prefix and operation byte
CB_OPCODES_bytes(arg) == 2

\* the condition of a conditional jump, call or return: NZ, Z, NC, C
condition(c, cc) ==
    CASE cc = 0 -> get_flag(c, Zero) = 0
      [] cc = 1 -> get_flag(c, Zero) = 1
      [] cc = 2 -> get_flag(c, Carry) = 0
      [] cc = 3 -> get_flag(c, Carry) = 1

\* the 8-bit arithmetic of opcodes 0x80..0xBF and their immediate forms
alu(c, k, value) ==
    CASE k = 0 -> add_a(c, value)
      [] k = 1 -> adc(c, value)
      [] k = 2 -> sub(c, value)
      [] k = 3 -> sbc(c, value)
      [] k = 4 -> and(c, value)
      [] k = 5 -> xor(c, value)
      [] k = 6 -> or(c, value)
      [] k = 7 -> cp(c, value)

\* the register pair of the opcode's bits 4..5: BC DE HL SP
get_rr(c, k) ==
    CASE k = 0 -> get_bc(c) [] k = 1 -> get_de(c) [] k = 2 -> get_hl(c) [] k = 3 -> c.sp

set_rr(c, k, v) ==
    CASE k = 0 -> set_bc(c, v) [] k = 1 -> set_de(c, v) [] k = 2 -> set_hl(c, v)
      [] k = 3 -> [c EXCEPT !.sp = v]

\* a POP AF that keeps all sixteen bits
pop_af_unmasked(value) == value

\* the value POP AF stores into AF: `self.pop() & 0xFFF0`
pop_af_mask(value) == BitAnd(value, 65520)

\* the match of execute, entered with pc already advanced
dispatch(s, opcode, arg_u8, arg_u16) ==
    LET c == s.cpu
        m == s.mmu
        hi == opcode \div 64
        mid == (opcode \div 8) % 8
        low == opcode % 8
        rp == (opcode \div 16) % 4
        cpuc(c1, n) == [cpu |-> c1, mmu |-> m, cycles |-> n]
        memc(m1, n) == [cpu |-> c, mmu |-> m1, cycles |-> n]
        jr == [c EXCEPT !.pc = wrapping_add16(c.pc, SignExtend(arg_u8))]
        ret_pc == [pop(s).cpu EXCEPT !.pc = pop_val(s)]
        call == with_cycles([push(s, c.pc) EXCEPT !.cpu.pc = arg_u16], 24)
    IN  CASE opcode = 0 -> cpuc(c, 4)
          [] opcode = 16 -> cpuc([c EXCEPT !.stopped = TRUE], 4)
          [] opcode = 118 -> cpuc([c EXCEPT !.halted = TRUE], 4)
          [] opcode = 243 -> cpuc([c EXCEPT !.ime = FALSE], 4)
          [] opcode = 251 -> cpuc([c EXCEPT !.ime = TRUE], 4)
          \* 8-bit loads
          [] opcode \in {2, 18} -> memc(write_byte(m, get_rr(c, rp), c.a), 8)
          [] opcode \in {10, 26} -> cpuc([c EXCEPT !.a = read_byte(m, get_rr(c, rp))], 8)
          [] opcode = 34 ->
                with_cycles([cpu |-> set_hl(c, wrapping_add16(get_hl(c), 1)),
                             mmu |-> write_byte(m, get_hl(c), c.a)], 8)
          [] opcode = 50 ->
                with_cycles([cpu |-> set_hl(c, wrapping_sub16(get_hl(c), 1)),
                             mmu |-> write_byte(m, get_hl(c), c.a)], 8)
          [] opcode = 42 ->
                cpuc(set_hl([c EXCEPT !.a = read_byte(m, get_hl(c))],
                            wrapping_add16(get_hl(c), 1)), 8)
          [] opcode = 58 ->
                cpuc(set_hl([c EXCEPT !.a = read_byte(m, get_hl(c))],
                            wrapping_sub16(get_hl(c), 1)), 8)
          [] opcode = 54 -> memc(write_byte(m, get_hl(c), arg_u8), 12)
          [] hi = 0 /\ low = 6 /\ opcode # 54 -> with_cycles(set_r(s, mid, arg_u8), 8)
          [] hi = 1 /\ opcode # 118 ->
                with_cycles(set_r(s, mid, get_r(s, low)),
                            IF low = 6 \/ mid = 6 THEN 8 ELSE 4)
          [] opcode = 224 -> memc(write_byte(m, 65280 + arg_u8, c.a), 12)
          [] opcode = 226 -> memc(write_byte(m, 65280 + c.c, c.a), 8)
          [] opcode = 234 -> memc(write_byte(m, arg_u16, c.a), 12)
          [] opcode = 240 -> cpuc([c EXCEPT !.a = read_byte(m, 65280 + arg_u8)], 8)
          [] opcode = 242 -> cpuc([c EXCEPT !.a = read_byte(m, 65280 + c.c)], 8)
          [] opcode = 250 -> cpuc([c EXCEPT !.a = read_byte(m, arg_u16)], 8)
          \* 16-bit loads
          [] hi = 0 /\ opcode % 16 = 1 -> cpuc(set_rr(c, rp, arg_u16), 12)
          [] opcode = 8 -> memc(write_short(m, arg_u16, c.sp), 20)
          [] opcode = 193 -> cpuc(set_bc(pop(s).cpu, pop_val(s)), 12)
          [] opcode = 209 -> cpuc(set_de(pop(s).cpu, pop_val(s)), 12)
          [] opcode = 225 -> cpuc(set_hl(pop(s).cpu, pop_val(s)), 12)
          [] opcode = 241 -> cpuc(set_af(pop(s).cpu, pop_af_mask(pop_val(s))), 12)
          [] opcode = 197 -> with_cycles(push(s, get_bc(c)), 16)
          [] opcode = 213 -> with_cycles(push(s, get_de(c)), 16)
          [] opcode = 229 -> with_cycles(push(s, get_hl(c)), 16)
          [] opcode = 245 -> with_cycles(push(s, get_af(c)), 16)
          [] opcode = 248 ->
                cpuc(set_znhc(set_hl(c, wrapping_add16(c.sp, SignExtend(arg_u8))),
                              FALSE, FALSE,
                              BitAnd(c.sp, 15) + BitAnd(arg_u8, 15) > 15,
                              BitAnd(c.sp, 255) + BitAnd(arg_u8, 255) > 255), 12)
          [] opcode = 249 -> cpuc([c EXCEPT !.sp = get_hl(c)], 8)
          \* 8-bit arithmetic
          [] hi = 0 /\ low = 4 ->
                with_cycles(store_r(s, mid, inc(c, get_r(s, mid))), IF mid = 6 THEN 12 ELSE 4)
          [] hi = 0 /\ low = 5 ->
                with_cycles(store_r(s, mid, dec(c, get_r(s, mid))), IF mid = 6 THEN 12 ELSE 4)
          [] hi = 2 -> cpuc(alu(c, mid, get_r(s, low)), IF low = 6 THEN 8 ELSE 4)
          [] hi = 3 /\ low = 6 -> cpuc(alu(c, mid, arg_u8), 8)
          \* 16-bit arithmetic
          [] hi = 0 /\ opcode % 16 = 3 ->
                cpuc(set_rr(c, rp, wrapping_add16(get_rr(c, rp), 1)), 8)
          [] hi = 0 /\ opcode % 16 = 11 ->
                cpuc(set_rr(c, rp, wrapping_sub16(get_rr(c, rp), 1)), 8)
          [] hi = 0 /\ opcode % 16 = 9 -> cpuc(add_hl(c, get_rr(c, rp)), 8)
          [] opcode = 232 -> cpuc(add_signed(c, arg_u8), 16)
          \* rotates, prefix, control
          [] opcode = 7 -> cpuc(rlca(c), 4)
          [] opcode = 15 -> cpuc(rrca(c), 4)
          [] opcode = 23 -> cpuc(rla(c), 4)
          [] opcode = 31 -> cpuc(rra(c), 4)
          [] opcode = 203 -> with_cycles(execute_cb(s, arg_u8), 4)
          [] opcode = 39 -> cpuc(daa(c), 4)
          [] opcode = 47 -> cpuc(cpl(c), 4)
          [] opcode = 55 ->
                cpuc(set_flag(set_flag(set_flag(c, Sub, FALSE), HalfCarry, FALSE),
                              Carry, TRUE), 4)
          [] opcode = 63 ->
                cpuc(set_flag(set_flag(set_flag(c, Sub, FALSE), HalfCarry, FALSE),
                              Carry, ~(get_flag(c, Carry) = 1)), 4)
          \* jumps, calls, returns
          [] opcode = 24 -> cpuc(jr, 12)
          [] opcode \in {32, 40, 48, 56} ->
                IF condition(c, mid - 4) THEN cpuc(jr, 12) ELSE cpuc(c, 8)
          [] opcode \in {192, 200, 216} ->
                IF condition(c, mid % 4) THEN cpuc(ret_pc, 20) ELSE cpuc(c, 8)
          [] opcode = 208 ->
                IF condition(c, 2) THEN cpuc(ret_pc, 12) ELSE cpuc(c, 8)
          [] opcode \in {194, 202, 210, 218} ->
                IF condition(c, mid % 4) THEN cpuc([c EXCEPT !.pc = arg_u16], 16)
                ELSE cpuc(c, 12)
          [] opcode = 195 -> cpuc([c EXCEPT !.pc = arg_u16], 16)
          [] opcode \in {196, 204, 212, 220} ->
                IF condition(c, mid % 4) THEN call ELSE cpuc(c, 12)
          [] opcode = 205 -> call
          [] opcode = 201 -> cpuc(ret_pc, 16)
          [] opcode = 217 -> cpuc([ret_pc EXCEPT !.ime = TRUE], 16)
          [] opcode = 233 -> cpuc([c EXCEPT !.pc = get_hl(c)], 4)
          [] hi = 3 /\ low = 7 ->
                with_cycles([push(s, c.pc) EXCEPT !.cpu.pc = mid * 8], 16)

\* a wake-up test that looks at the five interrupt sources only
halt_wakes_five_sources(interrupt_flag, interrupt_enable) ==
    BitAnd(BitAnd(interrupt_flag, interrupt_enable), 31) # 0

\* a wake-up at every step
halt_wakes_always(interrupt_flag, interrupt_enable) == TRUE

\* the test of the halted branch: `interrupt_flag & interrupt_enable != 0`
halt_wakes(interrupt_flag, interrupt_enable) ==
    BitAnd(interrupt_flag, interrupt_enable) # 0

\* an execute that runs the instruction under PC in the call that ends the halt
execute_resumes_at_once(s, opcode) ==
    LET interrupt_flag == read_byte(s.mmu, 65295)
        interrupt_enable == read_byte(s.mmu, 65535)
        arg_u8 == read_byte(s.mmu, (s.cpu.pc + 1) % 65536)
        arg_u16 == read_short(s.mmu, (s.cpu.pc + 1) % 65536)
        bytes == IF opcode = 203 THEN CB_OPCODES_bytes(arg_u8)
                 ELSE OPCODES_bytes(opcode)
        s1 == [s EXCEPT !.cpu.pc = (s.cpu.pc + bytes) % 65536, !.cpu.halted = FALSE]
    IN  IF s.cpu.halted /\ ~halt_wakes(interrupt_flag, interrupt_enable)
        THEN with_cycles(s, 4)
        ELSE dispatch(s1, opcode, arg_u8, arg_u16)

\* CPU::execute: the halted branch, the operand fetch, the pc advance, the match
execute(s, opcode) ==
    IF s.cpu.halted
    THEN LET interrupt_flag == read_byte(s.mmu, 65295)
             interrupt_enable == read_byte(s.mmu, 65535)
         IN  with_cycles(
                 IF halt_wakes(interrupt_flag, interrupt_enable)
                 THEN [s EXCEPT !.cpu.halted = FALSE] ELSE s, 4)
    ELSE LET arg_u8 == read_byte(s.mmu, (s.cpu.pc + 1) % 65536)
             arg_u16 == read_short(s.mmu, (s.cpu.pc + 1) % 65536)
             bytes == IF opcode = 203 THEN CB_OPCODES_bytes(arg_u8)
                      ELSE OPCODES_bytes(opcode)
             s1 == [s EXCEPT !.cpu.pc = (s.cpu.pc + bytes) % 65536]
         IN  dispatch(s1, opcode, arg_u8, arg_u16)

-----------------------------------------------------------------------------
(* Rust panics.  An out-of-range index and unreachable!() abort in every   *)
(* build; an overflowing `+` on an unsigned integer aborts only when the   *)
(* build has overflow checks (oc), and wraps otherwise.                    *)

\* MMU::write_byte aborts only through the ROM reads of an OAM DMA
write_byte_panics(m, addr, value) ==
    addr = 65350 /\ \E i \in 0 .. DmaLength - 1 : read_byte_panics(m, value * 256 + i)

\* MMU::read_short: addr + 1
read_short_panics(m, addr, oc) ==
    \/ read_byte_panics(m, addr)
    \/ oc /\ addr = 65535
    \/ read_byte_panics(m, (addr + 1) % 65536)

\* MMU::write_short: addr + 1
write_short_panics(m, addr, value, oc) ==
    \/ write_byte_panics(m, addr, value % 256)
    \/ oc /\ addr = 65535
    \/ write_byte_panics(m, (addr + 1) % 65536, value \div 256)

\* the memory accesses of each arm of the match of execute
dispatch_panics(s, opcode, arg_u8, arg_u16, oc) ==
    LET c == s.cpu
        m == s.mmu
        hi == opcode \div 64
        mid == (opcode \div 8) % 8
        low == opcode % 8
        rp == (opcode \div 16) % 4
        hl == get_hl(c)
        rd(a) == read_byte_panics(m, a)
        wr(a, v) == write_byte_panics(m, a, v)
        popp == read_short_panics(m, c.sp, oc)
        pushp(v) == write_short_panics(m, wrapping_sub16(c.sp, 2), v, oc)
    IN  \/ opcode \in UndefinedOpcodes
        \/ opcode \in {2, 18} /\ wr(get_rr(c, rp), c.a)
        \/ opcode \in {10, 26} /\ rd(get_rr(c, rp))
        \/ opcode \in {34, 50} /\ wr(hl, c.a)
        \/ opcode \in {42, 58} /\ rd(hl)
        \/ opcode = 54 /\ wr(hl, arg_u8)
        \/ hi = 1 /\ opcode # 118 /\ low = 6 /\ rd(hl)
        \/ hi = 1 /\ opcode # 118 /\ mid = 6 /\ wr(hl, get_r(s, low))
        \/ hi = 2 /\ low = 6 /\ rd(hl)
        \/ opcode = 52 /\ (rd(hl) \/ wr(hl, inc(c, get_r(s, 6)).val))
        \/ opcode = 53 /\ (rd(hl) \/ wr(hl, dec(c, get_r(s, 6)).val))
        \/ opcode = 224 /\ wr(65280 + arg_u8, c.a)
        \/ opcode = 226 /\ wr(65280 + c.c, c.a)
        \/ opcode = 234 /\ wr(arg_u16, c.a)
        \/ opcode = 240 /\ rd(65280 + arg_u8)
        \/ opcode = 242 /\ rd(65280 + c.c)
        \/ opcode = 250 /\ rd(arg_u16)
        \/ opcode = 8 /\ write_short_panics(m, arg_u16, c.sp, oc)
        \/ opcode \in {193, 209, 225, 241, 201, 217} /\ popp
        \/ opcode \in {192, 200, 208, 216} /\ condition(c, mid % 4) /\ popp
        \/ opcode = 197 /\ pushp(get_bc(c))
        \/ opcode = 213 /\ pushp(get_de(c))
        \/ opcode = 229 /\ pushp(get_hl(c))
        \/ opcode = 245 /\ pushp(get_af(c))
        \/ opcode \in {196, 204, 212, 220} /\ condition(c, mid % 4) /\ pushp(c.pc)
        \/ opcode = 205 /\ pushp(c.pc)
        \/ hi = 3 /\ low = 7 /\ pushp(c.pc)
        \/ opcode = 203 /\ arg_u8 % 8 = 6
               /\ (rd(hl) \/ (~(arg_u8 \in 64 .. 127) /\ wr(hl, cb_val(s, arg_u8))))

\* CPU::execute aborts
execute_panics(s, opcode, oc) ==
    /\ ~s.cpu.halted
    /\ LET pc == s.cpu.pc
           arg_u8 == read_byte(s.mmu, (pc + 1) % 65536)
           arg_u16 == read_short(s.mmu, (pc + 1) % 65536)
           bytes == IF opcode = 203 THEN CB_OPCODES_bytes(arg_u8) ELSE OPCODES_bytes(opcode)
       IN  \/ oc /\ pc + 1 > 65535
           \/ read_short_panics(s.mmu, (pc + 1) % 65536, oc)
           \/ oc /\ pc + bytes > 65535
           \/ dispatch_panics([s EXCEPT !.cpu.pc = (pc + bytes) % 65536],
                              opcode, arg_u8, arg_u16, oc)

-----------------------------------------------------------------------------
(* CPU: interrupt dispatch and timers                                      *)

\* InterruptSource: the vector of each interrupt bit
vector(interrupt_bit) ==
    CASE interrupt_bit = VBlankBit -> 64
      [] interrupt_bit = STATBit -> 72
      [] interrupt_bit = TimerBit -> 80
      [] interrupt_bit = SerialBit -> 88
      [] interrupt_bit = JoypadBit -> 96

\* an acknowledge that clears every request
acknowledge_all(interrupt_flag, interrupt_bit) == 0

\* the IF value a dispatch stores: `interrupt_flag & !(1 << interrupt_bit)`
acknowledge(interrupt_flag, interrupt_bit) ==
    BitAnd(interrupt_flag, Not8(2 ^ interrupt_bit))

\* a dispatch that leaves IME set
handle_interrupt_keeps_ime(s, interrupt_flag, interrupt_enable, interrupt_bit) ==
    IF s.cpu.ime
       /\ BitAnd(BitAnd(interrupt_flag, interrupt_enable), 2 ^ interrupt_bit) # 0
    THEN LET new_interrupt_flag == acknowledge(interrupt_flag, interrupt_bit)
             s2 == [s EXCEPT !.mmu = write_byte(s.mmu, InterruptFlag, new_interrupt_flag)]
             s3 == push(s2, s2.cpu.pc)
         IN  [s3 EXCEPT !.cpu.pc = vector(interrupt_bit)]
    ELSE s

\* CPU::handle_interrupt
handle_interrupt(s, interrupt_flag, interrupt_enable, interrupt_bit) ==
    IF s.cpu.ime
       /\ BitAnd(BitAnd(interrupt_flag, interrupt_enable), 2 ^ interrupt_bit) # 0
    THEN LET s1 == [s EXCEPT !.cpu.ime = FALSE]
             new_interrupt_flag == acknowledge(interrupt_flag, interrupt_bit)
             s2 == [s1 EXCEPT !.mmu = write_byte(s1.mmu, InterruptFlag, new_interrupt_flag)]
             s3 == push(s2, s2.cpu.pc)
         IN  [s3 EXCEPT !.cpu.pc = vector(interrupt_bit)]
    ELSE s

\* CPU::check_interrupts
check_interrupts(s) ==
    LET interrupt_flag == read_byte(s.mmu, InterruptFlag)
        interrupt_enable == read_byte(s.mmu, InterruptEnable)
        h(x, b) == handle_interrupt(x, interrupt_flag, interrupt_enable, b)
    IN  IF s.cpu.ime /\ BitAnd(interrupt_flag, interrupt_enable) # 0
        THEN [h(h(h(h(h(s, VBlankBit), STATBit), TimerBit), SerialBit), JoypadBit)
              EXCEPT !.cpu.halted = FALSE]
        ELSE s

\* the push of handle_interrupt is the only access of check_interrupts that can abort
check_interrupts_panics(s, oc) ==
    LET interrupt_flag == read_byte(s.mmu, InterruptFlag)
        interrupt_enable == read_byte(s.mmu, InterruptEnable)
    IN  /\ s.cpu.ime
        /\ BitAnd(BitAnd(interrupt_flag, interrupt_enable), 31) # 0
        /\ write_short_panics(s.mmu, wrapping_sub16(s.cpu.sp, 2), s.cpu.pc, oc)

CPU_CLOCK_SPEED == 4194304
DIVIDER_CLOCK_SPEED == 16384

\* the DIV period in T-cycles: 256
div_period == CPU_CLOCK_SPEED \div DIVIDER_CLOCK_SPEED

\* a tick that needs one cycle more than the period
div_tick_late(div_cycles) == div_cycles > div_period

\* the comparison of update_div that makes DIV tick
div_tick(div_cycles) == div_cycles >= div_period

\* CPU::update_div; div_cycles is a u32
update_div(s, instruction_cycles) ==
    LET div == read_byte(s.mmu, DividerRegister)
        div_cycles == wrapping_add32(s.cpu.div_cycles, instruction_cycles)
        tick == div_tick(div_cycles)
    IN  [cpu |-> [s.cpu EXCEPT !.div_cycles = IF tick THEN div_cycles - div_period
                                                   ELSE div_cycles],
         mmu |-> write_byte(s.mmu, DividerRegister,
                            IF tick THEN wrapping_add8(div, 1) ELSE div)]

\* TimerSource
TimerCounter == 65285
TimerModulo == 65286
TimerControl == 65287

\* the frequency TAC[1:0] selects
clock_freq(tac) ==
    LET clock_select == BitAnd(tac, 3)
    IN  CASE clock_select = 0 -> 4096
          [] clock_select = 1 -> 262144
          [] clock_select = 2 -> 65536
          [] clock_select = 3 -> 16384

timer_enabled(tac) == BitAnd(tac, 4) # 0

\* T-cycles per TIMA increment: CPU_CLOCK_SPEED / clock_freq
increment_rate(tac) == CPU_CLOCK_SPEED \div clock_freq(tac)

\* the call increments TIMA: the timer is enabled and the accumulator, with the
\* cycles of this call added, has reached the rate
tima_ticks(s, instruction_cycles) ==
    LET tac == read_byte(s.mmu, TimerControl)
    IN  /\ timer_enabled(tac)
        /\ s.cpu.tima_cycles + instruction_cycles >= increment_rate(tac)

\* a reload that restarts the counter at zero
tima_reload_zero(tma) == 0

\* the value TIMA takes when it overflows
tima_reload(tma) == tma

\* CPU::update_tima.  When the rate is not reached the cycles are added to the
\* accumulator a second time (the else branch).
update_tima(s, instruction_cycles) ==
    LET tima == read_byte(s.mmu, TimerCounter)
        tma == read_byte(s.mmu, TimerModulo)
        tac == read_byte(s.mmu, TimerControl)
        rate == increment_rate(tac)
        tima_cycles == s.cpu.tima_cycles + instruction_cycles
        new_tima == wrapping_add8(tima, 1)
    IN  IF ~timer_enabled(tac) THEN s
        ELSE IF tima_cycles >= rate
        THEN [cpu |-> [s.cpu EXCEPT !.tima_cycles = tima_cycles - rate],
              mmu |-> IF new_tima = 0
                      THEN request_interrupt(
                               write_byte(s.mmu, TimerCounter, tima_reload(tma)), TimerBit)
                      ELSE write_byte(s.mmu, TimerCounter, new_tima)]
        ELSE [cpu |-> [s.cpu EXCEPT !.tima_cycles = tima_cycles + instruction_cycles],
              mmu |-> s.mmu]

\* CPU::update_timers
update_timers(s, instruction_cycles) ==
    update_div(update_tima(s, instruction_cycles), instruction_cycles)

-----------------------------------------------------------------------------
(* PPU                                                                     *)

\* the cycle budget of each mode, as the four arms of update compare it
mode_budget(mode) ==
    CASE mode = "OAM" -> 80
      [] mode = "VRAM" -> 172
      [] mode = "HBlank" -> 204
      [] mode = "VBlank" -> 456

\* the comparison that ends a mode
budget_reached(current_cycles, budget) == current_cycles > budget

\* a subtraction that takes one cycle too many at every mode change
carry_over_one_more(current_cycles, budget) == current_cycles - budget - 1

\* the accumulator after a mode has ended
carry_over(current_cycles, budget) == current_cycles - budget

\* the last visible scanline, whose HBlank ends in VBlank
last_visible_line == SCREEN_HEIGHT - 1

\* a wrap test that is one scanline late
last_vblank_line_late == SCREEN_HEIGHT + 10

\* the last scanline of VBlank, after which LY returns to 0
last_vblank_line == SCREEN_HEIGHT + 9

\* a request at the end of every HBlank
hblank_request_always(scanline) == {VBlankBit}

\* the interrupt the HBlank arm requests when it ends scanline `scanline`
hblank_request(scanline) == IF scanline = last_visible_line THEN {VBlankBit} ELSE {}

\* the mode the HBlank arm enters when it ends scanline `scanline`
hblank_next_mode(scanline) == IF scanline = last_visible_line THEN "VBlank" ELSE "OAM"

RECURSIVE request_all(_, _)
request_all(m, bits) ==
    IF bits = {} THEN m
    ELSE LET b == CHOOSE x \in bits : TRUE
         IN  request_all(request_interrupt(m, b), bits \ {b})

\* PPUMemory
SCY == 65346
SCX == 65347
BGP == 65351
WY == 65354
WX == 65355

\* LCDCBits
BackgroundWindowEnable == 0
ObjectDisplayEnable == 1
BackgroundTileMapArea == 3
BackgroundAndWindowTileDataSelect == 4
WindowDisplayEnable == 5
WindowTileMapDisplaySelect == 6
LCDDisplayEnable == 7

SCREEN_WIDTH == 160

\* (value >> n) & 1
bit_of(value, n) == (value \div (2 ^ n)) % 2

\* the shade of a colour index under the palette BGP
shade(m, color_index) ==
    LET palette == read_byte(m, BGP)
        sel == (palette \div (2 ^ (color_index * 2))) % 4
    IN  CASE sel = 0 -> 255 [] sel = 1 -> 170 [] sel = 2 -> 85 [] sel = 3 -> 0

\* the address of a tile's data: unsigned from 0x8000, or signed around 0x9000
tile_data_address(tile_data_base, tile_index) ==
    IF tile_data_base = 32768
    THEN tile_data_base + tile_index * 16
    ELSE tile_data_base + (((IF tile_index >= 128 THEN tile_index - 256 ELSE tile_index)
                            + 128) * 16)

\* the 2BPP pixel of the tile line at tile_data_address, column px of the map
tile_pixel(m, address, line, px) ==
    LET tile_data_byte_1 == read_byte(m, (address + line * 2) % 65536)
        tile_data_byte_2 == read_byte(m, (address + line * 2 + 1) % 65536)
        tile_data_byte_index == 7 - (px % 8)
        color_index == bit_of(tile_data_byte_2, tile_data_byte_index) * 2
                       + bit_of(tile_data_byte_1, tile_data_byte_index)
    IN  shade(m, color_index)

\* PPU::draw_background_scanline: the colour stored for pixel x
background_pixel(m, scanline, x) ==
    LET lcdc == read_byte(m, LCDC)
        tile_map_base == IF bit_of(lcdc, BackgroundTileMapArea) = 0 THEN 38912 ELSE 39936
        tile_data_base ==
            IF bit_of(lcdc, BackgroundAndWindowTileDataSelect) = 0 THEN 34816 ELSE 32768
        background_x == (x + read_byte(m, SCX)) % 256
        background_y == (scanline + read_byte(m, SCY)) % 256
        tile_map_offset == (background_y \div 8) * 32 + background_x \div 8
        tile_index == read_byte(m, tile_map_base + tile_map_offset)
    IN  tile_pixel(m, tile_data_address(tile_data_base, tile_index),
                   background_y % 8, background_x)

\* PPU::draw_window_scanline leaves pixel x alone (`continue`)
window_skips(m, scanline, x) ==
    scanline < read_byte(m, WY) \/ x + 7 < read_byte(m, WX)

\* PPU::draw_window_scanline: the colour stored for pixel x; u16 arithmetic that
\* overflows wraps here and aborts in window_panics
window_pixel(m, scanline, x) ==
    LET lcdc == read_byte(m, LCDC)
        tile_map_base ==
            IF bit_of(lcdc, WindowTileMapDisplaySelect) = 0 THEN 38912 ELSE 39936
        tile_data_base ==
            IF bit_of(lcdc, BackgroundAndWindowTileDataSelect) = 0 THEN 34816 ELSE 32768
        window_y == scanline - read_byte(m, WY)
        window_x == wrapping_sub16(x, read_byte(m, WX))
        tile_map_row_offset == ((window_x \div 8) * 32) % 65536
        tile_map_col_offset == window_y \div 8
        tile_map_offset == (tile_map_row_offset + tile_map_col_offset) % 65536
        tile_index == read_byte(m, (tile_map_base + tile_map_offset) % 65536)
    IN  tile_pixel(m, tile_data_address(tile_data_base, tile_index), window_y % 8, window_x)

\* the overflows of draw_window_scanline at pixel x: x - wx below zero, and the
\* products and sums that follow from it
window_panics(m, scanline, x, oc) ==
    /\ ~window_skips(m, scanline, x)
    /\ oc
    /\ x < read_byte(m, WX)

\* the pixels of one scanline
Columns == 0 .. SCREEN_WIDTH - 1

\* PPU::draw_sprites_scanline: an empty body
draw_sprites_scanline(framebuffer, m, scanline) == framebuffer

\* PPU::draw_scanline: the frame buffer after it, as the pixels that are not white
draw_scanline(framebuffer, m, scanline) ==
    LET lcdc == read_byte(m, LCDC)
        bg == bit_of(lcdc, BackgroundWindowEnable) # 0
        win(x) == bit_of(lcdc, WindowDisplayEnable) # 0 /\ ~window_skips(m, scanline, x)
        drawn == {x \in Columns : bg \/ win(x)}
        color(x) == IF win(x) THEN window_pixel(m, scanline, x)
                    ELSE background_pixel(m, scanline, x)
        at(x) == scanline * SCREEN_WIDTH + x
        white == {at(x) : x \in {y \in drawn : color(y) = 255}}
        inked == {at(x) : x \in {y \in drawn : color(y) # 255}}
        layers == [i \in ((DOMAIN framebuffer) \ white) \cup inked |->
                     IF i \in inked
                     THEN color(i - scanline * SCREEN_WIDTH)
                     ELSE framebuffer[i]]
    IN  IF bit_of(lcdc, LCDDisplayEnable) = 0 THEN framebuffer
        ELSE IF bit_of(lcdc, ObjectDisplayEnable) # 0
        THEN draw_sprites_scanline(layers, m, scanline)
        ELSE layers

\* PPU::draw_scanline aborts: a store past the 144 * 160 frame buffer, or an
\* overflow of the window arithmetic
draw_scanline_panics(m, scanline, oc) ==
    LET lcdc == read_byte(m, LCDC)
        bg == bit_of(lcdc, BackgroundWindowEnable) # 0
        window == bit_of(lcdc, WindowDisplayEnable) # 0
    IN  /\ bit_of(lcdc, LCDDisplayEnable) # 0
        /\ \/ bg /\ scanline >= SCREEN_HEIGHT
           \/ window /\ \E x \in Columns :
                 /\ ~window_skips(m, scanline, x)
                 /\ (scanline >= SCREEN_HEIGHT \/ window_panics(m, scanline, x, oc))

\* PPU::update aborts: in the rendering, or on `scanline + 1` of a u8
update_panics(p, m, cycles, oc) ==
    LET scanline == read_byte(m, LY)
        current_cycles == p.current_cycles + cycles
    IN  /\ budget_reached(current_cycles, mode_budget(p.current_mode))
        /\ \/ p.current_mode = "VRAM" /\ draw_scanline_panics(m, scanline, oc)
           \/ p.current_mode = "HBlank" /\ oc /\ scanline = 255
           \/ p.current_mode = "VBlank" /\ oc /\ scanline = 255

\* PPU::update: the mode state machine, the rendering of a scanline at the end of
\* VRAM, the LY register and the VBlank request.  The result is [ppu, mmu, irq],
\* irq the bits requested.
update(p, m, cycles) ==
    LET scanline == read_byte(m, LY)
        current_cycles == p.current_cycles + cycles
        budget == mode_budget(p.current_mode)
        p1 == [p EXCEPT !.current_cycles = carry_over(current_cycles, budget)]
    IN  IF ~budget_reached(current_cycles, budget)
        THEN [ppu |-> [p EXCEPT !.current_cycles = current_cycles], mmu |-> m, irq |-> {}]
        ELSE CASE p.current_mode = "OAM" ->
                    [ppu |-> [p1 EXCEPT !.current_mode = "VRAM"], mmu |-> m, irq |-> {}]
               [] p.current_mode = "VRAM" ->
                    [ppu |-> [p1 EXCEPT !.current_mode = "HBlank",
                                        !.framebuffer =
                                            IF bit_of(read_byte(m, LCDC), LCDDisplayEnable) # 0
                                            THEN draw_scanline(p.framebuffer, m, scanline)
                                            ELSE p.framebuffer],
                     mmu |-> m, irq |-> {}]
               [] p.current_mode = "HBlank" ->
                    [ppu |-> [p1 EXCEPT !.current_mode = hblank_next_mode(scanline)],
                     mmu |-> write_byte(request_all(m, hblank_request(scanline)), LY,
                                        (scanline + 1) % 256),
                     irq |-> hblank_request(scanline)]
               [] p.current_mode = "VBlank" ->
                    IF scanline = last_vblank_line
                    THEN [ppu |-> [p1 EXCEPT !.current_mode = "OAM"],
                          mmu |-> write_byte(m, LY, 0), irq |-> {}]
                    ELSE [ppu |-> p1,
                          mmu |-> write_byte(m, LY, (scanline + 1) % 256), irq |-> {}]

-----------------------------------------------------------------------------
(* Construction                                                            *)

\* CPU::new
CPU_new ==
    [a |-> 1, f |-> 176, b |-> 0, c |-> 19, d |-> 0, e |-> 216, h |-> 1, l |-> 77,
     pc |-> 256, sp |-> 65534, ime |-> FALSE, stopped |-> FALSE, halted |-> FALSE,
     div_cycles |-> 0, tima_cycles |-> 0]

\* Joypad::new
Joypad_new == [select_buttons |-> 48, direction_buttons |-> 15, action_buttons |-> 15]

\* the `match rom_size_code` of Cart::from_rom: 32 KiB shifted by the code
rom_size_bytes(rom_size_code) == 32768 * 2 ^ rom_size_code

\* Cart::from_rom for an image file as long as its header byte 0x148 declares: the
\* sparse image, its length, and the banking state
Cart_from_rom(rom) ==
    [rom |-> rom, rom_len |-> rom_size_bytes(VecGet(rom, 328, 0)),
     rom_size_bytes |-> rom_size_bytes(VecGet(rom, 328, 0)),
     ram_enabled |-> FALSE, rom_bank_selected |-> 1]

\* MMU::new: ram is all zero but for 0xFF00, which the sparse vector's default holds
MMU_new(cart, joypad) == [ram |-> << >>, cart |-> cart, joypad |-> joypad]

\* GB::run before its first iteration
GB_new == [current_cycles |-> 0, instruction_cycles |-> 0]

\* PPU::new; the frame buffer holds the pixels that are not white (0xFF)
PPU_new == [framebuffer |-> << >>, current_mode |-> "OAM", current_cycles |-> 0]

-----------------------------------------------------------------------------
(* Bounds and inputs                                                       *)

\* frames of PPU time explored
MaxFrames == 2

\* DIV periods of timer time explored (more than one wrap of the 8-bit register)
MaxDivTicks == 258

\* DIV periods explored when the guest also stores to DIV, and the number of stores
MaxDivWriteTicks == 3
MaxDivWrites == 2

\* T-cycles of one frame: 154 scanlines of 456
CYCLES_PER_FRAME == 70224

\* the T-cycle counts an instruction can take, which are the sizes of the
\* update / update_div calls
CycleSizes == {4, 8, 12, 16, 20, 24}

\* the largest of them
MaxCall == CHOOSE x \in CycleSizes : \A y \in CycleSizes : y <= x

\* values a guest store writes to the DIV register
DivWrites == {0, 1, 85, 255}

NoClock ==
    [steps |-> 0, total |-> 0, in_frame |-> 0, frames |-> 0,
     last_req |-> -1, first_req |-> -1, nreq |-> 0, skip |-> -1, limit |-> 0,
     ticks |-> 0, trace |-> << >>, addr |-> -1]

-----------------------------------------------------------------------------
(* The PPU driven by update calls, no guest store to its registers          *)

InitMachine ==
    /\ cpu = CPU_new
    /\ gb = GB_new
    /\ mmu = MMU_new(Cart_from_rom(<< >>), Joypad_new)
    /\ ppu = PPU_new
    /\ panicked = FALSE
    /\ op = "new"
    /\ ret = 0
    /\ irq = {}

\* the machine after construction: LCDC is 0, the display is off
InitPPU ==
    /\ InitMachine
    /\ overflow_checks = FALSE
    /\ clock = [NoClock EXCEPT !.limit = MaxFrames * CYCLES_PER_FRAME]

\* one call of PPU::update with the cycle count of an instruction.  clock counts the
\* cycles fed, the frames completed (LY wraps), the VBlank requests since the last
\* wrap and, once `skip` requests have passed, the requests since then.
PpuUpdate(cycles) ==
    /\ ~panicked
    /\ clock.total + cycles <= clock.limit
    /\ IF update_panics(ppu, mmu, cycles, overflow_checks)
       THEN /\ panicked' = TRUE
            /\ op' = "abort"
            /\ UNCHANGED <<ppu, mmu, irq, clock>>
       ELSE LET r == update(ppu, mmu, cycles)
                ly == read_byte(mmu, LY)
                ly1 == read_byte(r.mmu, LY)
                total == clock.total + cycles
                req == r.irq # {}
                wrap == ly1 = 0 /\ ly # 0
            IN  /\ ppu' = r.ppu
                /\ mmu' = r.mmu
                /\ irq' = r.irq
                /\ clock' = [clock EXCEPT
                       !.total = total,
                       !.in_frame = IF wrap THEN 0 ELSE IF req THEN @ + 1 ELSE @,
                       !.frames = IF wrap THEN @ + 1 ELSE @,
                       !.skip = IF req /\ @ > 0 THEN @ - 1 ELSE @,
                       !.first_req = IF req /\ clock.skip = 0 /\ @ = -1 THEN total ELSE @,
                       !.nreq = IF req /\ clock.first_req # -1 THEN @ + 1 ELSE @]
                /\ op' = "update"
                /\ UNCHANGED panicked
    /\ ret' = 0
    /\ UNCHANGED <<cpu, overflow_checks, gb>>

NextPPU == \E cycles \in CycleSizes : PpuUpdate(cycles)

SpecPPU == InitPPU /\ [][NextPPU]_vars

\* the same machine, counting the cycles from some VBlank request on: from the
\* first one or from a later one
InitFrames ==
    /\ InitMachine
    /\ overflow_checks = FALSE
    /\ \E k \in 0 .. 1 :
          clock = [NoClock EXCEPT !.limit = (MaxFrames + 1) * CYCLES_PER_FRAME, !.skip = k]

SpecFrames == InitFrames /\ [][NextPPU]_vars

-----------------------------------------------------------------------------
(* The DIV timer driven by update_div calls                                *)

InitDIV ==
    /\ InitMachine
    /\ overflow_checks = FALSE
    /\ clock = [NoClock EXCEPT !.limit = MaxDivTicks * div_period]

\* one call of CPU::update_div with the cycle count of an instruction
DivUpdate(cycles) ==
    /\ ~panicked
    /\ clock.total + cycles <= clock.limit
    /\ LET r == update_div([cpu |-> cpu, mmu |-> mmu], cycles)
       IN  /\ cpu' = r.cpu
           /\ mmu' = r.mmu
    /\ clock' = [clock EXCEPT !.total = @ + cycles]
    /\ op' = "update_div"
    /\ ret' = 0
    /\ irq' = {}
    /\ UNCHANGED <<ppu, panicked, overflow_checks, gb>>

NextDIV == \E cycles \in CycleSizes : DivUpdate(cycles)

SpecDIV == InitDIV /\ [][NextDIV]_vars

\* the same with guest stores to 0xFF04 through MMU::write_byte
InitDIVW ==
    /\ InitMachine
    /\ overflow_checks = FALSE
    /\ clock = [NoClock EXCEPT !.limit = MaxDivWriteTicks * div_period]

GuestWriteDiv(value) ==
    /\ ~panicked
    /\ clock.steps < MaxDivWrites
    /\ mmu' = write_byte(mmu, DividerRegister, value)
    /\ clock' = [clock EXCEPT !.steps = @ + 1]
    /\ op' = "write_div"
    /\ ret' = 0
    /\ irq' = {}
    /\ UNCHANGED <<cpu, ppu, panicked, overflow_checks, gb>>

NextDIVW ==
    \/ \E cycles \in CycleSizes : DivUpdate(cycles)
    \/ \E value \in DivWrites : GuestWriteDiv(value)

SpecDIVW == InitDIVW /\ [][NextDIVW]_vars

-----------------------------------------------------------------------------
(* The CPU driven by execute, execute_cb and check_interrupts calls.  The   *)
(* opcode is the argument of the call; the operand bytes are read from the  *)
(* cartridge image at pc + 1.                                               *)

\* calls explored from the initial state
MaxSteps == 2

\* the byte that fills the operand positions of the image after the entry point
OperandBytes == {0, 15, 255}

\* a cartridge image: three operand bytes after the entry point 0x100, zero elsewhere
RomImage(v) == IF v = 0 THEN << >> ELSE [i \in 257 .. 259 |-> v]

\* opcodes given to execute: every helper that writes F, the stack, the control
\* transfers, the interrupt switches, and one opcode that has no arm
CpuOpcodes ==
    {0, 1, 4, 53, 7, 15, 23, 31, 9, 39, 47, 55, 63, 118, 128, 142, 144, 159, 160, 175,
     176, 184, 198, 222, 232, 248, 197, 245, 241, 193, 203, 195, 205, 201, 208, 32,
     251, 217, 211}

\* operation bytes given to execute_cb directly: one of each group
CbOpcodes == {0, 9, 18, 27, 36, 45, 55, 63, 70, 126, 134, 255}

Machine == [cpu |-> cpu, mmu |-> mmu]

Step == clock' = [clock EXCEPT !.steps = @ + 1]

\* one call of CPU::execute; a Rust panic ends the run
Execute(opcode) ==
    /\ ~panicked
    /\ clock.steps < clock.limit
    /\ IF execute_panics(Machine, opcode, overflow_checks)
       THEN /\ panicked' = TRUE
            /\ op' = "abort"
            /\ ret' = 0
            /\ UNCHANGED <<cpu, mmu>>
       ELSE LET r == execute(Machine, opcode)
            IN  /\ cpu' = r.cpu
                /\ mmu' = r.mmu
                /\ ret' = r.cycles
                /\ op' = "execute"
                /\ UNCHANGED panicked
    /\ Step
    /\ UNCHANGED <<ppu, irq, overflow_checks, gb>>

\* one call of CPU::execute_cb
ExecuteCb(opcode) ==
    /\ ~panicked
    /\ clock.steps < clock.limit
    /\ IF dispatch_panics(Machine, 203, opcode, 0, overflow_checks)
       THEN /\ panicked' = TRUE
            /\ op' = "abort"
            /\ ret' = 0
            /\ UNCHANGED <<cpu, mmu>>
       ELSE LET r == execute_cb(Machine, opcode)
            IN  /\ cpu' = r.cpu
                /\ mmu' = r.mmu
                /\ ret' = r.cycles
                /\ op' = "execute_cb"
                /\ UNCHANGED panicked
    /\ Step
    /\ UNCHANGED <<ppu, irq, overflow_checks, gb>>

\* one call of CPU::check_interrupts
CheckInterrupts ==
    /\ ~panicked
    /\ clock.steps < clock.limit
    /\ IF check_interrupts_panics(Machine, overflow_checks)
       THEN /\ panicked' = TRUE
            /\ op' = "abort"
            /\ UNCHANGED <<cpu, mmu>>
       ELSE LET r == check_interrupts(Machine)
            IN  /\ cpu' = r.cpu
                /\ mmu' = r.mmu
                /\ op' = "check_interrupts"
                /\ UNCHANGED panicked
    /\ ret' = 0
    /\ Step
    /\ UNCHANGED <<ppu, irq, overflow_checks, gb>>

\* one call of CPU::request_interrupt
RequestInterrupt(interrupt_bit) ==
    /\ ~panicked
    /\ clock.steps < clock.limit
    /\ mmu' = request_interrupt(mmu, interrupt_bit)
    /\ op' = "request_interrupt"
    /\ ret' = 0
    /\ Step
    /\ UNCHANGED <<cpu, ppu, panicked, irq, overflow_checks, gb>>

\* the machine after construction on one of the images, in either build
InitCPU ==
    /\ gb = GB_new
    /\ cpu = CPU_new
    /\ \E v \in OperandBytes : mmu = MMU_new(Cart_from_rom(RomImage(v)), Joypad_new)
    /\ ppu = PPU_new
    /\ panicked = FALSE
    /\ op = "new"
    /\ ret = 0
    /\ irq = {}
    /\ overflow_checks \in BOOLEAN
    /\ clock = [NoClock EXCEPT !.limit = MaxSteps]

NextCPU ==
    \/ \E opcode \in CpuOpcodes : Execute(opcode)
    \/ \E opcode \in CbOpcodes : ExecuteCb(opcode)
    \/ CheckInterrupts

SpecCPU == InitCPU /\ [][NextCPU]_vars

-----------------------------------------------------------------------------
(* Control transfers: the conditional and unconditional jumps, calls and    *)
(* returns, the restarts and the CB prefix, from states a guest program     *)
(* sets up: the Z and C flags, the stack pointer and the operand bytes.     *)
(* clock.trace keeps, for each execute call, the opcode, the operand and    *)
(* the CPU the call started from.                                           *)

\* execute calls explored from the initial state
MaxFlowSteps == 2

\* JR cc, RET cc, JP cc, CALL cc for NZ, Z, NC, C
ConditionalOpcodes ==
    {32, 40, 48, 56, 192, 200, 208, 216, 194, 202, 210, 218, 196, 204, 212, 220}

\* RST 00h .. RST 38h
RstOpcodes == {199, 207, 215, 223, 231, 239, 247, 255}

\* the conditional opcodes, CALL, RET, the restarts and the CB prefix
FlowOpcodes == ConditionalOpcodes \cup RstOpcodes \cup {205, 201, 203}

\* F and the low operand byte at 0x101, which is a jump offset, the low byte of a
\* target and a CB operation (RLC L; BIT 0,(HL); RES 0,(HL)); the high operand
\* byte at 0x102 is 0xC0
FlowSetups == {<<0, 5>>, <<16, 70>>, <<128, 134>>, <<144, 5>>}

\* stack pointers: the one construction leaves, and one in work RAM
FlowStacks == {65534, 49408}

InitFlow ==
    /\ gb = GB_new
    /\ \E setup \in FlowSetups, sp \in FlowStacks :
          /\ cpu = [CPU_new EXCEPT !.f = setup[1], !.sp = sp]
          /\ mmu = MMU_new(Cart_from_rom((257 :> setup[2]) @@ (258 :> 192)), Joypad_new)
    /\ ppu = PPU_new
    /\ panicked = FALSE
    /\ op = "new"
    /\ ret = 0
    /\ irq = {}
    /\ overflow_checks \in BOOLEAN
    /\ clock = [NoClock EXCEPT !.limit = MaxFlowSteps]

\* one call of CPU::execute, remembered in clock.trace
ExecuteFlow(opcode) ==
    /\ ~panicked
    /\ clock.steps < clock.limit
    /\ IF execute_panics(Machine, opcode, overflow_checks)
       THEN /\ panicked' = TRUE
            /\ op' = "abort"
            /\ ret' = 0
            /\ UNCHANGED <<cpu, mmu>>
       ELSE LET r == execute(Machine, opcode)
            IN  /\ cpu' = r.cpu
                /\ mmu' = r.mmu
                /\ ret' = r.cycles
                /\ op' = "execute"
                /\ UNCHANGED panicked
    /\ clock' = [clock EXCEPT
                    !.steps = @ + 1,
                    !.trace = Append(@, [opcode |-> opcode, cpu |-> cpu,
                                         arg_u16 |-> read_short(mmu, (cpu.pc + 1) % 65536)])]
    /\ UNCHANGED <<ppu, irq, overflow_checks, gb>>

NextFlow == \E opcode \in FlowOpcodes : ExecuteFlow(opcode)

SpecFlow == InitFlow /\ [][NextFlow]_vars

-----------------------------------------------------------------------------
(* OAM DMA: guest stores to memory and to the DMA register 0xFF46, on a     *)
(* cartridge with bytes at both ends of a source page in each ROM bank.     *)

\* stores explored from the initial state
MaxDmaSteps == 3

\* source pages written to 0xFF46: cartridge bank 0 and bank 1, VRAM, work RAM, the
\* page below OAM, OAM itself, and the page of the I/O registers
DmaSources == {0, 64, 128, 193, 253, 254, 255}

\* addresses of the other stores: both ends of a work-RAM page, both ends of OAM, the
\* joypad select register, and the DMA register's neighbour in the I/O page
DmaStoreAddresses == {49408, 49567, 65024, 65183, 65280, 65351}

DmaStoreValues == {171, 32}

\* the cartridge image: bytes at offsets 0x00 and 0x9F of the pages 0x00 and 0x40
DmaImage == (0 :> 49) @@ (159 :> 119) @@ (16384 :> 85) @@ (16543 :> 102)

InitDMA ==
    /\ gb = GB_new
    /\ cpu = CPU_new
    /\ mmu = MMU_new(Cart_from_rom(DmaImage), Joypad_new)
    /\ ppu = PPU_new
    /\ panicked = FALSE
    /\ op = "new"
    /\ ret = 0
    /\ irq = {}
    /\ overflow_checks = FALSE
    /\ clock = [NoClock EXCEPT !.limit = MaxDmaSteps]

\* MMU::write_byte(addr, value) by the guest; ret keeps the value
GuestStore(addr, value) ==
    /\ ~panicked
    /\ clock.steps < clock.limit
    /\ IF write_byte_panics(mmu, addr, value)
       THEN /\ panicked' = TRUE
            /\ op' = "abort"
            /\ UNCHANGED mmu
       ELSE /\ mmu' = write_byte(mmu, addr, value)
            /\ op' = IF addr = 65350 THEN "write_dma" ELSE "write_byte"
            /\ UNCHANGED panicked
    /\ ret' = value
    /\ Step
    /\ UNCHANGED <<cpu, ppu, irq, overflow_checks, gb>>

NextDMA ==
    \/ \E value \in DmaSources : GuestStore(65350, value)
    \/ \E addr \in DmaStoreAddresses, value \in DmaStoreValues : GuestStore(addr, value)

SpecDMA == InitDMA /\ [][NextDMA]_vars

-----------------------------------------------------------------------------
(* The memory map: guest loads and stores over the cartridge range, the     *)
(* external RAM, work RAM and its echo, on cartridges of three sizes.       *)
(* clock.addr keeps the address of the latest access.                       *)

\* accesses explored from the initial state
MaxMbcSteps == 2

\* rom_size_code of the images: 32 KiB, 64 KiB, 128 KiB
RomSizeCodes == {0, 1, 2}

\* an image with a byte at the start of bank 0 and bank 1 and, when it has one, of
\* bank 2, and its size code in the header
MbcImage(rom_size_code) ==
    LET body == (0 :> 49) @@ (16384 :> 85)
    IN  IF rom_size_code = 0 THEN body
        ELSE body @@ (32768 :> 102) @@ (328 :> rom_size_code)

\* both ends of the RAM-enable range, of the bank-select range and of the banked
\* window, external RAM, work RAM and its echo, and the DMA register
MbcAddresses ==
    {0, 8191, 8192, 16383, 16384, 32767, 40960, 49152, 57343, 57344, 65023, 65350}

\* stored bytes: bank 0 in two ways, the enable pattern, a bank of the larger
\* images, a bank past all of them, and a data byte
MbcValues == {0, 32, 10, 3, 5, 171}

InitMBC ==
    /\ gb = GB_new
    /\ cpu = CPU_new
    /\ \E rom_size_code \in RomSizeCodes :
          mmu = MMU_new(Cart_from_rom(MbcImage(rom_size_code)), Joypad_new)
    /\ ppu = PPU_new
    /\ panicked = FALSE
    /\ op = "new"
    /\ ret = 0
    /\ irq = {}
    /\ overflow_checks = FALSE
    /\ clock = [NoClock EXCEPT !.limit = MaxMbcSteps]

\* MMU::write_byte(addr, value) by the guest
GuestWrite(addr, value) ==
    /\ ~panicked
    /\ clock.steps < clock.limit
    /\ IF write_byte_panics(mmu, addr, value)
       THEN /\ panicked' = TRUE
            /\ op' = "abort"
            /\ UNCHANGED mmu
       ELSE /\ mmu' = write_byte(mmu, addr, value)
            /\ op' = "write_byte"
            /\ UNCHANGED panicked
    /\ ret' = value
    /\ clock' = [clock EXCEPT !.steps = @ + 1, !.addr = addr]
    /\ UNCHANGED <<cpu, ppu, irq, overflow_checks, gb>>

\* MMU::read_byte(addr) by the guest; ret is the byte returned
GuestRead(addr) ==
    /\ ~panicked
    /\ clock.steps < clock.limit
    /\ IF read_byte_panics(mmu, addr)
       THEN /\ panicked' = TRUE
            /\ op' = "abort"
            /\ ret' = 0
       ELSE /\ ret' = read_byte(mmu, addr)
            /\ op' = "read_byte"
            /\ UNCHANGED panicked
    /\ clock' = [clock EXCEPT !.steps = @ + 1, !.addr = addr]
    /\ UNCHANGED <<cpu, mmu, ppu, irq, overflow_checks, gb>>

NextMBC ==
    \/ \E addr \in MbcAddresses, value \in MbcValues : GuestWrite(addr, value)
    \/ \E addr \in MbcAddresses : GuestRead(addr)

SpecMBC == InitMBC /\ [][NextMBC]_vars

-----------------------------------------------------------------------------
(* The joypad: the host presses and releases buttons, the guest stores to   *)
(* and loads from 0xFF00.                                                   *)

\* host and guest operations explored from the initial state
MaxJoypadSteps == 3

JoypadButtons == {"Right", "Left", "Up", "Down", "A", "B", "Select", "Start"}

\* bytes the guest stores to 0xFF00: each combination of the select bits, and two
\* with other bits set
SelectValues == {0, 16, 32, 48, 207, 255}

InitJoypad ==
    /\ gb = GB_new
    /\ cpu = CPU_new
    /\ mmu = MMU_new(Cart_from_rom(<< >>), Joypad_new)
    /\ ppu = PPU_new
    /\ panicked = FALSE
    /\ op = "new"
    /\ ret = 0
    /\ irq = {}
    /\ overflow_checks = FALSE
    /\ clock = [NoClock EXCEPT !.limit = MaxJoypadSteps]

\* Joypad::press_button by the host
PressButton(button) ==
    /\ ~panicked
    /\ clock.steps < clock.limit
    /\ mmu' = [mmu EXCEPT !.joypad = press_button(@, button)]
    /\ op' = "press_button"
    /\ ret' = 0
    /\ clock' = [clock EXCEPT !.steps = @ + 1, !.addr = -1]
    /\ UNCHANGED <<cpu, ppu, panicked, irq, overflow_checks, gb>>

\* Joypad::release_button by the host
ReleaseButton(button) ==
    /\ ~panicked
    /\ clock.steps < clock.limit
    /\ mmu' = [mmu EXCEPT !.joypad = release_button(@, button)]
    /\ op' = "release_button"
    /\ ret' = 0
    /\ clock' = [clock EXCEPT !.steps = @ + 1, !.addr = -1]
    /\ UNCHANGED <<cpu, ppu, panicked, irq, overflow_checks, gb>>

NextJoypad ==
    \/ \E button \in JoypadButtons : PressButton(button)
    \/ \E button \in JoypadButtons : ReleaseButton(button)
    \/ \E value \in SelectValues : GuestWrite(JOYP, value)
    \/ GuestRead(JOYP)

SpecJoypad == InitJoypad /\ [][NextJoypad]_vars

-----------------------------------------------------------------------------
(* The ends of the address space: execute with PC and SP at and next to     *)
(* 0xFFFF, where a guest jump or LD SP puts them, in either build.          *)

\* execute calls explored from the initial state
MaxWrapSteps == 2

\* NOP; LD BC,d16; JR e; LD (a16),SP; PUSH BC; POP BC; CALL a16; RET
WrapOpcodes == {0, 1, 24, 8, 197, 193, 205, 201}

\* program counters: the entry point, work RAM, and the last three addresses
WrapCounters == {256, 49152, 65533, 65534, 65535}

\* stack pointers: after construction and around the wrap
WrapStacks == {65534, 65535, 0, 1}

InitWrap ==
    /\ gb = GB_new
    /\ \E pc \in WrapCounters, sp \in WrapStacks :
          cpu = [CPU_new EXCEPT !.pc = pc, !.sp = sp]
    /\ mmu = [MMU_new(Cart_from_rom(<< >>), Joypad_new)
                 EXCEPT !.ram = (49153 :> 255) @@ (49154 :> 255)]
    /\ ppu = PPU_new
    /\ panicked = FALSE
    /\ op = "new"
    /\ ret = 0
    /\ irq = {}
    /\ overflow_checks \in BOOLEAN
    /\ clock = [NoClock EXCEPT !.limit = MaxWrapSteps]

NextWrap == \E opcode \in WrapOpcodes : ExecuteFlow(opcode)

SpecWrap == InitWrap /\ [][NextWrap]_vars

-----------------------------------------------------------------------------
(* The accumulator arithmetic, called as the arms of execute call it: one   *)
(* arithmetic helper on drawn inputs and, for the BCD helpers, DAA after    *)
(* it.  clock.trace keeps the CPU each call started from and its operand.   *)

Bytes == 0 .. 255

\* packed BCD bytes: both nibbles 0 .. 9
BcdBytes == {16 * hi + lo : hi \in 0 .. 9, lo \in 0 .. 9}

\* one call of an arithmetic helper, remembered in clock.trace under the opcode of
\* its immediate form
AluCall(name, opcode, value, result) ==
    /\ ~panicked
    /\ cpu' = result
    /\ op' = name
    /\ ret' = 0
    /\ clock' = [clock EXCEPT
                    !.steps = @ + 1,
                    !.trace = Append(@, [opcode |-> opcode, cpu |-> cpu, arg_u16 |-> value])]
    /\ UNCHANGED <<mmu, ppu, panicked, irq, overflow_checks, gb>>

\* every A, with the carry flag clear or set
InitADC ==
    /\ gb = GB_new
    /\ \E a \in Bytes, carry \in {0, 1} :
          cpu = [CPU_new EXCEPT !.a = a, !.f = carry * 2 ^ Carry]
    /\ mmu = MMU_new(Cart_from_rom(<< >>), Joypad_new)
    /\ ppu = PPU_new
    /\ panicked = FALSE
    /\ op = "new"
    /\ ret = 0
    /\ irq = {}
    /\ overflow_checks = FALSE
    /\ clock = NoClock

\* CPU::adc(value), once from each initial state
Adc(value) == op = "new" /\ AluCall("adc", 206, value, adc(cpu, value))

NextADC == \E value \in Bytes : Adc(value)

SpecADC == InitADC /\ [][NextADC]_vars

\* every packed BCD A, with the flags clear
InitBCD ==
    /\ gb = GB_new
    /\ \E a \in BcdBytes : cpu = [CPU_new EXCEPT !.a = a, !.f = 0]
    /\ mmu = MMU_new(Cart_from_rom(<< >>), Joypad_new)
    /\ ppu = PPU_new
    /\ panicked = FALSE
    /\ op = "new"
    /\ ret = 0
    /\ irq = {}
    /\ overflow_checks = FALSE
    /\ clock = NoClock

\* CPU::add_a(value) on a packed BCD operand
AddA(value) == op = "new" /\ AluCall("add_a", 198, value, add_a(cpu, value))

\* CPU::sub(value) on a packed BCD operand
Sub8(value) == op = "new" /\ AluCall("sub", 214, value, sub(cpu, value))

\* CPU::daa after the addition or subtraction
Daa == op \in {"add_a", "sub"} /\ AluCall("daa", 39, 0, daa(cpu))

NextBCD ==
    \/ \E value \in BcdBytes : AddA(value)
    \/ \E value \in BcdBytes : Sub8(value)
    \/ Daa

SpecBCD == InitBCD /\ [][NextBCD]_vars

-----------------------------------------------------------------------------
(* SP-relative arithmetic: the arms 0xE8 (ADD SP,e8) and 0xF8 (LD HL,SP+e8) *)
(* of execute, once from each stack pointer, on every operand byte.         *)

\* stack pointers: every low byte, in the first and in the last page
SpValues == {hi * 256 + lo : hi \in {0, 255}, lo \in Bytes}

InitSPE ==
    /\ gb = GB_new
    /\ \E sp \in SpValues : cpu = [CPU_new EXCEPT !.sp = sp]
    /\ mmu = MMU_new(Cart_from_rom(<< >>), Joypad_new)
    /\ ppu = PPU_new
    /\ panicked = FALSE
    /\ op = "new"
    /\ ret = 0
    /\ irq = {}
    /\ overflow_checks = FALSE
    /\ clock = NoClock

\* the arm 0xE8 of execute: add_signed(arg_u8 as i8)
AddSp(arg_u8) ==
    op = "new" /\ AluCall("add_sp", 232, arg_u8, dispatch(Machine, 232, arg_u8, arg_u8).cpu)

\* the arm 0xF8 of execute
LdHlSp(arg_u8) ==
    op = "new" /\ AluCall("ld_hl_sp", 248, arg_u8, dispatch(Machine, 248, arg_u8, arg_u8).cpu)

NextSPE ==
    \/ \E arg_u8 \in Bytes : AddSp(arg_u8)
    \/ \E arg_u8 \in Bytes : LdHlSp(arg_u8)

SpecSPE == InitSPE /\ [][NextSPE]_vars

-----------------------------------------------------------------------------
(* Cart::from_rom on image files of every length                            *)

\* Cart::from_rom for an image file of `len` bytes: the length of the Vec is the
\* length of the file, whatever the header declares
Cart_from_file(rom, len) == [Cart_from_rom(rom) EXCEPT !.rom_len = len]

\* Cart::from_rom panics: the title slice and the header bytes are past the end of
\* the file, or a size code has no arm in its `match`
from_rom_panics(rom, len) ==
    \/ len < 324
    \/ len <= 329
    \/ VecGet(rom, 328, 0) > 7
    \/ VecGet(rom, 329, 0) > 3

\* the header bytes 0x148 and 0x149 of the file
HeaderRomCodes == 0 .. 8
HeaderRamCodes == 0 .. 4
FileLengths == {0, 323, 329, 330, 16384, 32767, 32768, 65536, 131072, 4194304}

InitCart ==
    /\ cpu = CPU_new
    /\ gb = GB_new
    /\ mmu = MMU_new(Cart_from_rom(<< >>), Joypad_new)
    /\ ppu = PPU_new
    /\ op = "new"
    /\ ret = 0
    /\ irq = 0
    /\ clock = NoClock
    /\ overflow_checks = TRUE
    /\ panicked = FALSE

\* Cart::from_rom(rom) and MMU::new on its result; the file is remembered in
\* clock.trace and its length in ret
FromRom(rom, len) ==
    /\ op = "new"
    /\ op' = "from_rom"
    /\ ret' = len
    /\ clock' = [clock EXCEPT !.steps = @ + 1, !.trace = Append(@, rom)]
    /\ IF from_rom_panics(rom, len)
       THEN panicked' = TRUE /\ mmu' = mmu
       ELSE panicked' = FALSE /\ mmu' = MMU_new(Cart_from_file(rom, len), Joypad_new)
    /\ UNCHANGED <<cpu, ppu, irq, overflow_checks, gb>>

NextCart ==
    \E rom_size_code \in HeaderRomCodes, ram_size_code \in HeaderRamCodes,
       len \in FileLengths :
        FromRom((328 :> rom_size_code) @@ (329 :> ram_size_code), len)

SpecCart == InitCart /\ [][NextCart]_vars

-----------------------------------------------------------------------------
(* The PPU rendering scanlines while the guest stores to its registers      *)

\* guest stores to the PPU registers explored from the initial state
MaxLcdWrites == 2

\* cycles fed to PPU::update from the initial state
MaxLcdCycles == 36

OBP0 == 65352
OBP1 == 65353

\* a sequence of MMU::write_byte calls, <<addr, value>> each
RECURSIVE write_bytes(_, _)
write_bytes(m, stores) ==
    IF stores = << >> THEN m
    ELSE write_bytes(write_byte(m, stores[1][1], stores[1][2]), Tail(stores))

\* the video memory the guest has set up: tile 1 with one pixel of colour 1, tile 2
\* with a line of colour 3, both tile maps showing them, the identity palettes,
\* and sprite 0 with tile 2 at the top left corner of the screen
VideoSetup ==
    << <<32784, 128>>, <<32800, 255>>, <<32801, 255>>,
       <<38913, 1>>, <<39936, 1>>, <<39937, 2>>, <<39968, 2>>,
       <<BGP, 228>>, <<OBP0, 228>>, <<OBP1, 27>>,
       <<65024, 16>>, <<65025, 8>>, <<65026, 2>>, <<65027, 0>> >>

\* LCDC: display off, background and sprites, everything
LcdcValues == {17, 147, 243}

\* the stores of the guest to LY, LCDC, SCX, SCY, WX and WY
LcdStores ==
    {<<LY, 8>>, <<LY, 144>>, <<LY, 255>>, <<LCDC, 17>>, <<LCDC, 243>>,
     <<WX, 7>>, <<WX, 166>>, <<WY, 8>>, <<SCX, 3>>, <<SCY, 5>>}

\* ten instructions of 24 cycles after construction: PPU::update has left OAM
\* after the fourth and has collected 160 cycles in VRAM; LY is still 0
InitLCD ==
    /\ cpu = CPU_new
    /\ gb = GB_new
    /\ \E lcdc \in LcdcValues :
          mmu = write_bytes(MMU_new(Cart_from_rom(<< >>), Joypad_new),
                            VideoSetup \o << <<LCDC, lcdc>> >>)
    /\ ppu = [PPU_new EXCEPT !.current_mode = "VRAM", !.current_cycles = 160]
    /\ panicked = FALSE
    /\ op = "new"
    /\ ret = 0
    /\ irq = {}
    /\ overflow_checks \in BOOLEAN
    /\ clock = [NoClock EXCEPT !.limit = MaxLcdCycles]

\* a store of the guest to a PPU register
LcdStore(addr, value) ==
    /\ clock.steps < MaxLcdWrites
    /\ GuestWrite(addr, value)

NextLCD ==
    \/ \E cycles \in {12, 24} : PpuUpdate(cycles)
    \/ \E store \in LcdStores : LcdStore(store[1], store[2])

SpecLCD == InitLCD /\ [][NextLCD]_vars

-----------------------------------------------------------------------------
(* The stack: PUSH rr and POP rr from register values and stack pointers a  *)
(* guest program loads (LD rr,d16; LD SP,d16; POP AF).                      *)

\* execute calls explored from the initial state
MaxStackSteps == 2

\* PUSH BC, DE, HL, AF and POP BC, DE, HL, AF
PushOpcodes == {197, 213, 229, 245}
PopOpcodes == {193, 209, 225, 241}

\* the value loaded into each of BC, DE, HL and, with its low nibble clear, AF
PairValues == {0, 4660, 49579, 65535}

\* stack pointers: after construction, work RAM, wrapped from 0, and slots in the
\* cartridge range, across its end, on the joypad and serial registers, on the DMA
\* register, and across the end of the address space
StackPointers == {65534, 49408, 0, 256, 32769, 65282, 65352, 1}

InitStack ==
    /\ gb = GB_new
    /\ \E v \in PairValues, sp \in StackPointers :
          cpu = [CPU_new EXCEPT !.a = v \div 256, !.f = BitAnd(v % 256, 240),
                                !.b = v \div 256, !.c = v % 256,
                                !.d = v \div 256, !.e = v % 256,
                                !.h = v \div 256, !.l = v % 256, !.sp = sp]
    /\ mmu = MMU_new(Cart_from_rom(<< >>), Joypad_new)
    /\ ppu = PPU_new
    /\ panicked = FALSE
    /\ op = "new"
    /\ ret = 0
    /\ irq = {}
    /\ overflow_checks \in BOOLEAN
    /\ clock = [NoClock EXCEPT !.limit = MaxStackSteps]

NextStack == \E opcode \in PushOpcodes \cup PopOpcodes : ExecuteFlow(opcode)

SpecStack == InitStack /\ [][NextStack]_vars

-----------------------------------------------------------------------------
(* Interrupts and HALT.  The initial states are those a guest program sets  *)
(* up with EI / DI, HALT and stores to IE (0xFFFF) and IF (0xFF0F): every   *)
(* combination of IME, halted and a value of each register, with the stack  *)
(* where construction leaves it.                                            *)

EnableValues == {0, 1, 4, 21, 31, 224, 255}
FlagValues == {0, 1, 5, 16, 30, 224, 255}

\* opcodes given to execute: NOP, HALT, EI, DI, RETI, PUSH BC
IrqOpcodes == {0, 118, 251, 243, 217, 197}

InterruptBits == {VBlankBit, STATBit, TimerBit, SerialBit, JoypadBit}

InitIRQ ==
    /\ gb = GB_new
    /\ \E ime \in BOOLEAN, halted \in BOOLEAN :
          cpu = [CPU_new EXCEPT !.ime = ime, !.halted = halted]
    /\ \E ie \in EnableValues, if \in FlagValues :
          mmu = write_byte(write_byte(MMU_new(Cart_from_rom(<< >>), Joypad_new),
                                      InterruptEnable, ie), InterruptFlag, if)
    /\ ppu = PPU_new
    /\ panicked = FALSE
    /\ op = "new"
    /\ ret = 0
    /\ irq = {}
    /\ overflow_checks = FALSE
    /\ clock = [NoClock EXCEPT !.limit = MaxSteps]

NextIRQ ==
    \/ \E opcode \in IrqOpcodes : Execute(opcode)
    \/ \E interrupt_bit \in InterruptBits : RequestInterrupt(interrupt_bit)
    \/ CheckInterrupts

SpecIRQ == InitIRQ /\ [][NextIRQ]_vars

-----------------------------------------------------------------------------
(* The interrupt master enable: execute calls remembered by opcode, requests *)
(* and check_interrupts calls, from the states a guest sets up with EI / DI, *)
(* HALT and stores to IE and IF                                             *)

\* calls explored from the initial state
MaxImeSteps == 3

ImeEnables == {0, 5, 31, 224}
ImeFlags == {0, 1, 5, 224}

InitIME ==
    /\ gb = GB_new
    /\ \E ime \in BOOLEAN, halted \in BOOLEAN :
          cpu = [CPU_new EXCEPT !.ime = ime, !.halted = halted]
    /\ \E ie \in ImeEnables, if \in ImeFlags :
          mmu = write_byte(write_byte(MMU_new(Cart_from_rom(<< >>), Joypad_new),
                                      InterruptEnable, ie), InterruptFlag, if)
    /\ ppu = PPU_new
    /\ panicked = FALSE
    /\ op = "new"
    /\ ret = 0
    /\ irq = {}
    /\ overflow_checks = FALSE
    /\ clock = [NoClock EXCEPT !.limit = MaxImeSteps]

NextIME ==
    \/ \E opcode \in IrqOpcodes : ExecuteFlow(opcode)
    \/ \E interrupt_bit \in InterruptBits : RequestInterrupt(interrupt_bit)
    \/ CheckInterrupts

SpecIME == InitIME /\ [][NextIME]_vars

-----------------------------------------------------------------------------
(* The TIMA timer driven by update_tima calls, TAC and TMA held constant.   *)
(* The initial states are those a guest program sets up with stores to     *)
(* TIMA, TMA, TAC and IF.                                                   *)

\* TIMA periods of timer time explored
MaxTimaPeriods == 2

TacValues == {0, 3, 4, 5, 6, 7}
TmaValues == {0, 171}
TimaValues == {0, 254, 255}
TimerFlagValues == {0, 225}

InitTIMA ==
    /\ gb = GB_new
    /\ cpu = CPU_new
    /\ \E tac \in TacValues, tma \in TmaValues, tima \in TimaValues,
          if \in TimerFlagValues :
          /\ mmu = write_byte(write_byte(write_byte(write_byte(
                       MMU_new(Cart_from_rom(<< >>), Joypad_new),
                       TimerControl, tac), TimerModulo, tma), TimerCounter, tima),
                       InterruptFlag, if)
          /\ clock = [NoClock EXCEPT !.limit = MaxTimaPeriods * increment_rate(tac)]
    /\ ppu = PPU_new
    /\ panicked = FALSE
    /\ op = "new"
    /\ ret = 0
    /\ irq = {}
    /\ overflow_checks = FALSE

\* one call of CPU::update_tima with the cycle count of an instruction; clock.ticks
\* counts the calls that incremented TIMA
TimaUpdate(cycles) ==
    /\ ~panicked
    /\ clock.total + cycles <= clock.limit
    /\ LET r == update_tima(Machine, cycles)
       IN  /\ cpu' = r.cpu
           /\ mmu' = r.mmu
    /\ clock' = [clock EXCEPT !.total = @ + cycles,
                              !.ticks = IF tima_ticks(Machine, cycles) THEN @ + 1 ELSE @]
    /\ op' = "update_tima"
    /\ ret' = 0
    /\ irq' = {}
    /\ UNCHANGED <<ppu, panicked, overflow_checks, gb>>

NextTIMA == \E cycles \in CycleSizes : TimaUpdate(cycles)

SpecTIMA == InitTIMA /\ [][NextTIMA]_vars

-----------------------------------------------------------------------------
(* The scheduler GB::run on a cartridge image.  One action is one iteration *)
(* of the inner loop; another is the frame boundary, where the outer loop   *)
(* starts over.                                                             *)

\* frames the scheduler runs
MaxGbFrames == 2

\* OPCODES[opcode].cycles[0] of consts.rs: the SM83 T-cycle table, the taken count
\* first for a conditional opcode
OPCODES_cycles(opcode) ==
    LET hi == opcode \div 64
        mid == (opcode \div 8) % 8
        low == opcode % 8
    IN  CASE opcode \in {0, 16, 118, 243, 251, 203, 233} -> 4
          [] opcode = 8 -> 20
          [] opcode \in {24, 32, 40, 48, 56} -> 12
          [] hi = 0 /\ opcode % 16 = 1 -> 12
          [] hi = 0 /\ low \in {2, 3} -> 8
          [] hi = 0 /\ opcode % 16 = 9 -> 8
          [] hi = 0 /\ low \in {4, 5} -> IF mid = 6 THEN 12 ELSE 4
          [] hi = 0 /\ low = 6 -> IF mid = 6 THEN 12 ELSE 8
          [] hi = 0 /\ low = 7 -> 4
          [] hi = 1 -> IF low = 6 \/ mid = 6 THEN 8 ELSE 4
          [] hi = 2 -> IF low = 6 THEN 8 ELSE 4
          [] opcode \in {192, 200, 208, 216} -> 20
          [] opcode \in {193, 209, 225, 241} -> 12
          [] opcode \in {194, 202, 210, 218, 195} -> 16
          [] opcode \in {196, 204, 212, 220, 205} -> 24
          [] opcode \in {197, 213, 229, 245} -> 16
          [] hi = 3 /\ low = 6 -> 8
          [] hi = 3 /\ low = 7 -> 16
          [] opcode \in {201, 217, 232, 234, 250} -> 16
          [] opcode \in {224, 240, 248} -> 12
          [] opcode \in {226, 242, 249} -> 8
          [] OTHER -> 4

\* CB_OPCODES[opcode].cycles[0] of consts.rs
CB_OPCODES_cycles(opcode) ==
    IF opcode % 8 # 6 THEN 8
    ELSE IF opcode \in 64 .. 127 THEN 12
    ELSE 16

\* the cycle count GB::run looks up for the instruction byte it fetched: the CB
\* table is indexed with the prefix byte itself
instruction_cycles(instruction) ==
    IF instruction = 203 THEN CB_OPCODES_cycles(instruction)
    ELSE OPCODES_cycles(instruction)

\* the iteration aborts: in the fetch, in execute or in check_interrupts
run_panics(s, oc) ==
    \/ read_byte_panics(s.mmu, s.cpu.pc)
    \/ LET instruction == read_byte(s.mmu, s.cpu.pc)
       IN  \/ execute_panics(s, instruction, oc)
           \/ LET r == execute(s, instruction)
              IN  check_interrupts_panics([cpu |-> r.cpu, mmu |-> r.mmu], oc)

\* the frame accumulator at the start of the next frame: `let mut current_cycles = 0`
next_frame_cycles(current_cycles) == 0

\* cartridge images, as the bytes from the entry point 0x100 on (zero elsewhere):
\* a NOP slide; JP 0x0103 / NOP / JP 0x0103; HALT / LD BC,d16; JR NZ,+5 with Z set;
\* a program that starts the timer at TIMA = 0xFF with IE = 0x04 and EI; RES 0,B
Programs ==
    { << >>,
      <<195, 3, 1, 0, 195, 3, 1>>,
      <<118, 1>>,
      <<32, 5>>,
      <<62, 5, 224, 7, 62, 4, 224, 255, 62, 255, 224, 5, 251>>,
      <<203, 128>> }

\* the sparse image of a program
ProgramImage(bytes) ==
    LET used == {i \in 1 .. Len(bytes) : bytes[i] # 0}
    IN  [a \in {255 + i : i \in used} |-> bytes[a - 255]]

InitGB ==
    /\ cpu = CPU_new
    /\ \E bytes \in Programs :
          mmu = MMU_new(Cart_from_rom(ProgramImage(bytes)), Joypad_new)
    /\ ppu = PPU_new
    /\ gb = GB_new
    /\ panicked = FALSE
    /\ op = "new"
    /\ ret = 0
    /\ irq = {}
    /\ overflow_checks = FALSE
    /\ clock = [NoClock EXCEPT !.limit = MaxGbFrames]

\* one iteration of `while current_cycles < CYCLES_PER_FRAME`: fetch, execute, the
\* table lookup, check_interrupts, update_timers, the addition.  ret is the value
\* execute returned, which the loop drops.
RunStep ==
    /\ ~panicked
    /\ clock.frames < clock.limit
    /\ gb.current_cycles < CYCLES_PER_FRAME
    /\ IF run_panics(Machine, overflow_checks)
       THEN /\ panicked' = TRUE
            /\ op' = "abort"
            /\ ret' = 0
            /\ UNCHANGED <<cpu, mmu, gb, clock>>
       ELSE LET instruction == read_byte(mmu, cpu.pc)
                r == execute(Machine, instruction)
                cycles == instruction_cycles(instruction)
                s1 == check_interrupts([cpu |-> r.cpu, mmu |-> r.mmu])
                s2 == update_timers(s1, cycles)
            IN  /\ cpu' = s2.cpu
                /\ mmu' = s2.mmu
                /\ ret' = r.cycles
                /\ gb' = [current_cycles |-> gb.current_cycles + cycles,
                          instruction_cycles |-> cycles]
                /\ clock' = [clock EXCEPT !.steps = @ + 1, !.total = @ + cycles]
                /\ op' = "run"
                /\ UNCHANGED panicked
    /\ UNCHANGED <<ppu, irq, overflow_checks>>

\* the frame boundary: the inner loop ends and the outer loop starts over
FrameEnd ==
    /\ ~panicked
    /\ clock.frames < clock.limit
    /\ gb.current_cycles >= CYCLES_PER_FRAME
    /\ gb' = [gb EXCEPT !.current_cycles = next_frame_cycles(gb.current_cycles)]
    /\ clock' = [clock EXCEPT !.frames = @ + 1]
    /\ op' = "frame"
    /\ ret' = 0
    /\ UNCHANGED <<cpu, mmu, ppu, panicked, irq, overflow_checks>>

NextGB == RunStep \/ FrameEnd

SpecGB == InitGB /\ [][NextGB]_vars

-----------------------------------------------------------------------------
(* The scheduler on programs that start the timer, enable its interrupt,    *)
(* execute EI and HALT, and return from the handler at 0x50 with RETI       *)

\* frames the scheduler runs on these programs
MaxHaltFrames == 1

\* TIMA at the start: an overflow before, at and long after the HALT
HaltTimaValues == {0, 240, 254, 255}

\* the instruction after the HALT: INC B, or LD BC,d16
HaltSuccessors == {<<4, 24, 252>>, <<1, 52, 18, 24, 250>>}

\* LD A,5 / LDH (07),A / LD A,4 / LDH (FF),A / LD A,tima / LDH (05),A / EI / HALT /
\* the successor / JR back to the HALT
HaltProgram(tima, successor) ==
    <<62, 5, 224, 7, 62, 4, 224, 255, 62, tima, 224, 5, 251, 118>> \o successor

InitHalt ==
    /\ cpu = CPU_new
    /\ \E tima \in HaltTimaValues, successor \in HaltSuccessors :
          mmu = MMU_new(Cart_from_rom(ProgramImage(HaltProgram(tima, successor))
                                      @@ (80 :> 217)),
                        Joypad_new)
    /\ ppu = PPU_new
    /\ gb = GB_new
    /\ panicked = FALSE
    /\ op = "new"
    /\ ret = 0
    /\ irq = {}
    /\ overflow_checks = FALSE
    /\ clock = [NoClock EXCEPT !.limit = MaxHaltFrames]

SpecHalt == InitHalt /\ [][NextGB]_vars

-----------------------------------------------------------------------------
(* Properties of the CPU                                                    *)

if_now == read_byte(mmu, InterruptFlag)
ie_now == read_byte(mmu, InterruptEnable)

\* the interrupt sources pending in a pair of register values
pending(interrupt_flag, interrupt_enable) ==
    {b \in InterruptBits : BitAnd(BitAnd(interrupt_flag, interrupt_enable), 2 ^ b) # 0}

\* the lowest-numbered element of a non-empty set of sources
lowest(bits) == CHOOSE b \in bits : \A other \in bits : b <= other

\* C1: in every reachable CPU state, after any sequence of execute, execute_cb and
\* check_interrupts calls on any of the images, the low 4 bits of F are 0.
C1_FlagLowNibbleZero == cpu.f % 16 = 0

\* POP AF has loaded the bytes 0x00 0x13 that PUSH BC stored, and F is 0x10
C1_Witness ==
    op = "execute" /\ clock.steps = 2 /\ cpu.sp = 65534 /\ cpu.a = 0 /\ cpu.f = 16
    /\ read_short(mmu, 65532) = 19

\* C2: when check_interrupts runs with IME set and a source b in 0..4 pending in both
\* IE and IF, it dispatches the lowest such b and no other: IME becomes false, IF
\* loses bit b and keeps every other bit, the old PC is pushed and SP decreases by 2,
\* PC becomes 0x40 + 8 * b, halted becomes false, and nothing else changes.
C2_DispatchLowestPending ==
    [][(op' = "check_interrupts" /\ cpu.ime /\ pending(if_now, ie_now) # {}) =>
          LET b == lowest(pending(if_now, ie_now))
              sp == wrapping_sub16(cpu.sp, 2)
          IN  /\ cpu' = [cpu EXCEPT !.ime = FALSE, !.sp = sp, !.pc = 64 + 8 * b,
                                    !.halted = FALSE]
              /\ mmu' = write_short(write_byte(mmu, InterruptFlag, if_now - 2 ^ b),
                                    sp, cpu.pc)
              /\ read_byte(mmu', InterruptFlag) = if_now - 2 ^ b
              /\ read_byte(mmu', InterruptEnable) = ie_now
              /\ read_short(mmu', cpu'.sp) = cpu.pc]_vars

\* the Timer interrupt was dispatched while VBlank, requested but not enabled,
\* stays pending
C2_Witness ==
    /\ op = "check_interrupts" /\ clock.steps = 1
    /\ cpu.pc = 80 /\ ~cpu.ime /\ ~cpu.halted /\ cpu.sp = 65532
    /\ read_short(mmu, 65532) = 256
    /\ if_now = 1 /\ ie_now = 4

\* C3: if the CPU is halted and (IE & IF) # 0, then after one execute step halted is
\* false, whether IME is set or not.
C3_HaltExitsWhenPending ==
    [][(op' = "execute" /\ cpu.halted /\ BitAnd(ie_now, if_now) # 0) => ~cpu'.halted]_vars

\* a halted CPU with IME clear has left HALT in its first step, on bits 5..7 alone
C3_Witness ==
    /\ op = "execute" /\ clock.steps = 1 /\ cpu.pc = 256
    /\ ~cpu.halted /\ ~cpu.ime /\ ie_now = 224 /\ if_now = 224

\* C4: while the CPU is halted and (IE & IF) = 0, an execute step returns 4 and
\* changes nothing: registers, flags, PC, SP, IME, halted and memory are as before.
C4_HaltIdles ==
    [][(op' = "execute" /\ cpu.halted /\ BitAnd(ie_now, if_now) = 0) =>
          (ret' = 4 /\ cpu' = cpu /\ mmu' = mmu /\ ppu' = ppu)]_vars

\* a halted CPU with a request that is not enabled has idled for two steps
C4_Witness ==
    /\ op = "execute" /\ clock.steps = 2 /\ cpu.pc = 256 /\ cpu.halted /\ ret = 4
    /\ ie_now = 4 /\ if_now = 1

-----------------------------------------------------------------------------
(* Properties of the PPU state machine                                     *)

ly_now == read_byte(mmu, LY)

\* C5: with no guest store to LY, LY stays in 0..153 and moves only by +1 or by the
\* wrap 153 -> 0; the mode is VBlank exactly while LY is in 144..153 and is OAM,
\* VRAM or HBlank while LY is in 0..143.
C5_LySequence ==
    /\ [](/\ ly_now \in 0 .. 153
          /\ (ppu.current_mode = "VBlank") <=> (ly_now \in 144 .. 153)
          /\ ppu.current_mode \in {"OAM", "VRAM", "HBlank", "VBlank"})
    /\ [][\/ read_byte(mmu', LY) = ly_now
          \/ read_byte(mmu', LY) = ly_now + 1
          \/ ly_now = 153 /\ read_byte(mmu', LY) = 0]_vars

\* a second frame has begun and LY counts up again
C5_Witness == clock.frames = 1 /\ ly_now = 2 /\ ppu.current_mode = "HBlank"

\* C6: the VBlank interrupt is requested in exactly the update call in which LY goes
\* from 143 to 144 and the mode becomes VBlank, it sets IF bit 0, and there is exactly
\* one request between two LY wraps.
C6_VBlankOncePerFrame ==
    /\ [](clock.in_frame <= 1)
    /\ [][/\ (VBlankBit \in irq') <=>
                (ly_now = 143 /\ read_byte(mmu', LY) = 144 /\ ppu'.current_mode = "VBlank")
          /\ (VBlankBit \in irq') => BitAnd(read_byte(mmu', InterruptFlag), 1) = 1
          /\ irq' \subseteq {VBlankBit}
          /\ (clock'.frames # clock.frames) => clock.in_frame = 1]_vars

\* the request of the second frame has been made
C6_Witness ==
    clock.frames = 1 /\ irq = {VBlankBit} /\ clock.in_frame = 1 /\ ly_now = 144

\* C7: a mode ends in the update call at which the accumulated cycles reach its
\* budget (accumulator >= budget); after exactly 80 cycles from reset the mode is
\* VRAM and after exactly 456 cycles LY is 1.
C7_ModeEndsAtBudget ==
    /\ [](/\ clock.total = 80 => ppu.current_mode = "VRAM"
          /\ clock.total = 456 => ly_now = 1)
    /\ [][(ppu.current_cycles + (clock'.total - clock.total)
              >= mode_budget(ppu.current_mode))
          => (ppu'.current_mode # ppu.current_mode \/ read_byte(mmu', LY) # ly_now)]_vars

\* C8: no cycles are lost or gained at mode transitions: counted from any VBlank
\* request, the n-th request after it comes when n * 70224 cycles have been fed, up
\* to less than the largest update call (24); n = 1 is the length of one frame.
C8_NoDrift ==
    (irq = {VBlankBit} /\ clock.nreq >= 1) =>
        LET fed == clock.total - clock.first_req
            due == clock.nreq * CYCLES_PER_FRAME
        IN  fed - due < MaxCall /\ due - fed < MaxCall

\* two frames have been measured from the first request, and one from the second
C8_Witness == irq = {VBlankBit} /\ clock.nreq = 2 /\ clock.skip = 0

-----------------------------------------------------------------------------
(* Properties of the DIV timer                                             *)

\* C9: with no guest store to 0xFF04 and calls of at most 24 cycles, after calls
\* totalling N cycles DIV is floor(N / 256) mod 256 and div_cycles is in 0..255.
C9_DivCounts ==
    /\ read_byte(mmu, DividerRegister) = (clock.total \div 256) % 256
    /\ cpu.div_cycles \in 0 .. 255

\* DIV has wrapped past 0xFF and counts on
C9_Witness ==
    clock.total > 65536 /\ read_byte(mmu, DividerRegister) = 1 /\ cpu.div_cycles = 8

\* C10: after a guest store of any value to 0xFF04 a read of 0xFF04 returns 0 and
\* the accumulator div_cycles is 0.
C10_DivWriteResets ==
    op = "write_div" => (read_byte(mmu, DividerRegister) = 0 /\ cpu.div_cycles = 0)

-----------------------------------------------------------------------------
(* Properties of the TIMA timer                                            *)

tima_now == read_byte(mmu, TimerCounter)
tma_now == read_byte(mmu, TimerModulo)
tac_now == read_byte(mmu, TimerControl)

\* the period the claim gives for TAC[1:0]
tima_period(tac) ==
    LET s == tac % 4
    IN  CASE s = 0 -> 1024 [] s = 1 -> 16 [] s = 2 -> 64 [] s = 3 -> 256

\* C11: with TAC bit 2 set and TAC[1:0] constant, after update_tima calls of at most
\* 24 cycles totalling N cycles TIMA has been incremented exactly floor(N / P) times,
\* P = 1024, 16, 64, 256 for TAC[1:0] = 0, 1, 2, 3; with TAC bit 2 clear TIMA and
\* tima_cycles never change.
C11_TimaRate ==
    /\ []((tac_now \div 4) % 2 = 1 => clock.ticks = clock.total \div tima_period(tac_now))
    /\ [][(tac_now \div 4) % 2 = 0 =>
             (read_byte(mmu', TimerCounter) = tima_now
              /\ cpu'.tima_cycles = cpu.tima_cycles)]_vars

\* C12: a call of update_tima that increments TIMA from 0xFF stores TMA in TIMA and
\* sets IF bit 2, all other IF bits unchanged; an increment from any other value
\* stores TIMA + 1 and leaves IF unchanged.
C12_TimaOverflowReloads ==
    [][(op' = "update_tima" /\ clock'.ticks = clock.ticks + 1) =>
          IF tima_now = 255
          THEN /\ read_byte(mmu', TimerCounter) = tma_now
               /\ read_byte(mmu', InterruptFlag) = BitOr(if_now, 4)
          ELSE /\ read_byte(mmu', TimerCounter) = tima_now + 1
               /\ read_byte(mmu', InterruptFlag) = if_now]_vars

\* TIMA has overflowed from 0xFF, holds TMA = 0xAB, and IF went from 0xE1 to 0xE5
C12_Witness ==
    /\ op = "update_tima" /\ clock.ticks = 1
    /\ tima_now = 171 /\ tma_now = 171 /\ if_now = 229

-----------------------------------------------------------------------------
(* Properties of the scheduler                                              *)

\* C13: every iteration of the scheduler loop performs, once each and in this order,
\* one CPU step, the interrupt dispatch check, the timer advance and the PPU advance,
\* the last two with the cycle count of the iteration.
C13_SchedulerOrder ==
    [][op' = "run" =>
          LET c == gb'.instruction_cycles
              s0 == execute(Machine, read_byte(mmu, cpu.pc))
              s1 == check_interrupts([cpu |-> s0.cpu, mmu |-> s0.mmu])
              s2 == update_timers(s1, c)
              u == update(ppu, s2.mmu, c)
          IN  cpu' = s2.cpu /\ mmu' = u.mmu /\ ppu' = u.ppu]_vars

\* C14: in each scheduler iteration the cycle count passed to the timers and added
\* to the frame accumulator is the count the CPU step of that iteration returned.
C14_CyclesFromStep ==
    [][op' = "run" =>
          /\ gb'.instruction_cycles = ret'
          /\ gb'.current_cycles = gb.current_cycles + ret']_vars

\* C15: at a frame boundary the scheduler subtracts 70224 from the frame accumulator,
\* so after n boundaries the accumulator is the total of executed cycles minus
\* n * 70224.
C15_FrameCarry ==
    gb.current_cycles = clock.total - clock.frames * CYCLES_PER_FRAME

-----------------------------------------------------------------------------
(* Properties of the control transfers                                      *)

\* the execute call the current state results from
last_call == clock.trace[Len(clock.trace)]

\* the execute call before that one
call_before == clock.trace[Len(clock.trace) - 1]

executed == op = "execute" /\ Len(clock.trace) >= 1

\* the condition NZ, Z, NC, C of a conditional opcode holds for flags f
taken(opcode, f) ==
    LET cc == (opcode \div 8) % 4
        z == (f \div 128) % 2
        cy == (f \div 16) % 2
    IN  CASE cc = 0 -> z = 0
          [] cc = 1 -> z = 1
          [] cc = 2 -> cy = 0
          [] cc = 3 -> cy = 1

\* the cycle counts of a conditional opcode: taken, not taken
cond_cycles(opcode) ==
    CASE opcode \in {32, 40, 48, 56} -> <<12, 8>>
      [] opcode \in {194, 202, 210, 218} -> <<16, 12>>
      [] opcode \in {196, 204, 212, 220} -> <<24, 12>>
      [] opcode \in {192, 200, 208, 216} -> <<20, 8>>

\* C16: a conditional opcode returns the taken count when its condition holds and
\* the not-taken count otherwise (JR cc 12/8, JP cc 16/12, CALL cc 24/12, RET cc
\* 20/8, for NZ, Z, NC and C); when not taken, PC is at the next instruction and SP
\* is unchanged.
C16_ConditionalCycles ==
    (executed /\ last_call.opcode \in ConditionalOpcodes) =>
        IF taken(last_call.opcode, last_call.cpu.f)
        THEN ret = cond_cycles(last_call.opcode)[1]
        ELSE /\ ret = cond_cycles(last_call.opcode)[2]
             /\ cpu.pc = (last_call.cpu.pc + OPCODES_bytes(last_call.opcode)) % 65536
             /\ cpu.sp = last_call.cpu.sp

\* C17: execute(0xCB) returns the cycle count of the CB operation it ran, the value
\* execute_cb returns: 8 on a register, 12 for BIT b,(HL), 16 for the others on (HL).
C17_CbPrefixCycles ==
    [][(op' = "execute" /\ Len(clock'.trace) >= 1
            /\ clock'.trace[Len(clock'.trace)].opcode = 203) =>
          ret' = execute_cb(Machine, read_byte(mmu, (cpu.pc + 1) % 65536)).cycles]_vars

\* both bytes of a stack slot are plain RAM: stored by write_byte, returned by
\* read_byte
writable_slot(sp) ==
    \A a \in {(sp + 65534) % 65536, (sp + 65535) % 65536} :
        a >= 32768 /\ a \notin {65280, 65281, 65350}

\* C18: with the stack in writable RAM, CALL nn at address p pushes p + 3 and sets
\* PC to nn; a RET that follows sets PC to p + 3 and restores SP; each RST n pushes
\* the address of the next instruction and sets PC to n.
C18_CallRetRst ==
    /\ (executed /\ last_call.opcode = 205 /\ writable_slot(last_call.cpu.sp)) =>
          /\ cpu.pc = last_call.arg_u16
          /\ cpu.sp = (last_call.cpu.sp + 65534) % 65536
          /\ read_short(mmu, cpu.sp) = (last_call.cpu.pc + 3) % 65536
    /\ (executed /\ Len(clock.trace) >= 2 /\ last_call.opcode = 201
            /\ call_before.opcode = 205 /\ writable_slot(call_before.cpu.sp)) =>
          /\ cpu.pc = (call_before.cpu.pc + 3) % 65536
          /\ cpu.sp = call_before.cpu.sp
    /\ (executed /\ last_call.opcode \in RstOpcodes /\ writable_slot(last_call.cpu.sp)) =>
          /\ cpu.pc = last_call.opcode - 199
          /\ cpu.sp = (last_call.cpu.sp + 65534) % 65536
          /\ read_short(mmu, cpu.sp) = (last_call.cpu.pc + 1) % 65536

\* a RET has followed a CALL from 0x100 with the stack in work RAM
C18_Witness ==
    /\ executed /\ Len(clock.trace) >= 2
    /\ last_call.opcode = 201 /\ call_before.opcode = 205
    /\ call_before.cpu.pc = 256 /\ call_before.cpu.sp = 49408
    /\ cpu.pc = 259 /\ cpu.sp = 49408

\* the register pair a PUSH or POP opcode names, in CPU c
pair_of(c, opcode) ==
    CASE opcode \in {197, 193} -> c.b * 256 + c.c
      [] opcode \in {213, 209} -> c.d * 256 + c.e
      [] opcode \in {229, 225} -> c.h * 256 + c.l
      [] opcode \in {245, 241} -> c.a * 256 + c.f

\* a POP rr has run right after the PUSH of the same rr
push_then_pop ==
    /\ executed /\ Len(clock.trace) >= 2
    /\ call_before.opcode \in PushOpcodes
    /\ last_call.opcode = call_before.opcode - 4

\* rr and SP are what they were before the PUSH, AF with the low nibble of F clear
pair_restored ==
    /\ pair_of(cpu, last_call.opcode) =
          IF last_call.opcode = 241
          THEN BitAnd(pair_of(call_before.cpu, 241), 65520)
          ELSE pair_of(call_before.cpu, last_call.opcode)
    /\ cpu.sp = call_before.cpu.sp

\* C19 as stated: for each rr in BC, DE, HL, AF, every register value and every SP,
\* PUSH rr immediately followed by POP rr leaves rr as before the PUSH (AF with the
\* low nibble of F masked) and SP unchanged.
C19_PushPopEverySp == push_then_pop => pair_restored

\* C19 amended: the same, when both bytes of the stack slot the PUSH writes are
\* plain RAM.
C19_PushPopInRam ==
    (push_then_pop /\ writable_slot(call_before.cpu.sp)) => pair_restored

\* PUSH BC and POP BC have brought BC = 0xC1AB back through the slot at 0xFFFE,
\* with SP wrapped from 0 and back
C19_Witness ==
    /\ push_then_pop /\ last_call.opcode = 193
    /\ call_before.cpu.sp = 0 /\ call_before.cpu.b = 193 /\ call_before.cpu.c = 171
    /\ cpu.b = 193 /\ cpu.c = 171 /\ cpu.sp = 0
    /\ read_short(mmu, 65534) = 49579

-----------------------------------------------------------------------------
(* Properties of the MMU                                                    *)

\* C20: for every X, after a write of X to 0xFF46, for every i in 0 .. 0x9F a read
\* of 0xFE00 + i returns the byte a read of (X << 8) + i returned immediately before
\* the write.
C20_OamDmaCopies ==
    [][op' = "write_dma" =>
          \A i \in 0 .. 159 :
              read_byte(mmu', 65024 + i) = read_byte(mmu, ret' * 256 + i)]_vars

\* a transfer from page 0xC1 has brought 0xAB to both ends of OAM
C20_Witness ==
    /\ op = "write_dma" /\ ret = 193
    /\ read_byte(mmu, 49408) = 171 /\ read_byte(mmu, 49567) = 171
    /\ read_byte(mmu, 65024) = 171 /\ read_byte(mmu, 65183) = 171

-----------------------------------------------------------------------------
(* Properties of the memory map                                             *)

\* the banks of the cartridge: rom_size_bytes / 0x4000
banks == mmu.cart.rom_size_bytes \div 16384

\* C21: no guest write, to the cartridge range or anywhere else, the DMA register
\* included, changes a ROM byte; a write to 0x0000-0x7FFF changes at most the banking
\* state ram_enabled and rom_bank_selected.
C21_RomImmutable ==
    [][/\ mmu'.cart.rom = mmu.cart.rom
       /\ mmu'.cart.rom_len = mmu.cart.rom_len
       /\ (op' = "write_byte" /\ clock'.addr \in 0 .. 32767) =>
             (mmu'.ram = mmu.ram /\ mmu'.joypad = mmu.joypad)]_vars

\* a store to the banked window of a 64 KiB cartridge has left the image as it was
C21_Witness ==
    /\ op = "write_byte" /\ clock.addr = 16384 /\ ret = 171
    /\ mmu.cart.rom = MbcImage(1)
    /\ read_byte(mmu, 16384) = 85

\* C22: a write of v to an address in 0x2000..0x3FFF sets the ROM bank to v & 0x1F, or
\* to 1 when that is 0, and a write of v to an address in 0x0000..0x1FFF sets
\* ram_enabled to ((v & 0x0F) = 0x0A); the boundary addresses 0x1FFF and 0x3FFF
\* behave like the rest of their range.
C22_BankingRanges ==
    /\ (op = "write_byte" /\ clock.addr \in 8192 .. 16383) =>
          mmu.cart.rom_bank_selected = (IF ret % 32 = 0 THEN 1 ELSE ret % 32)
    /\ (op = "write_byte" /\ clock.addr \in 0 .. 8191) =>
          mmu.cart.ram_enabled = (ret % 16 = 10)

\* C23: after any sequence of guest writes rom_bank_selected is in 1 .. banks - 1, so
\* a read of 0x4000-0x7FFF never maps bank 0 and never indexes past the image, for
\* every supported ROM size.
C23_BankInRange ==
    /\ mmu.cart.rom_bank_selected \in 1 .. banks - 1
    /\ \A addr \in {16384, 32767} : ~read_byte_panics(mmu, addr)

\* C24: while ram_enabled is false, a read of an address in 0xA000-0xBFFF returns
\* 0xFF and a write to that range is ignored.
C24_ExternalRamGated ==
    [][(clock'.addr \in 40960 .. 49151 /\ ~mmu.cart.ram_enabled) =>
          /\ op' = "read_byte" => ret' = 255
          /\ op' = "write_byte" => mmu'.ram = mmu.ram]_vars

\* C25: for every address a in 0xE000-0xFDFF a read of a returns the byte a read of
\* a - 0x2000 returns, in every reachable state.
C25_EchoRam ==
    \A a \in {57344, 65023} : read_byte(mmu, a) = read_byte(mmu, a - 8192)

-----------------------------------------------------------------------------
(* Properties of the joypad                                                 *)

\* bit i of the low nibble a read of 0xFF00 shows: 0 when a selected row has its
\* button i pressed (bit 4 = 0 selects the directions, bit 5 = 0 the actions)
joypad_line(joypad, i) ==
    LET directions == (joypad.select_buttons \div 16) % 2 = 0
        actions == (joypad.select_buttons \div 32) % 2 = 0
        pressed(row) == (row \div 2 ^ i) % 2 = 0
    IN  IF \/ directions /\ pressed(joypad.direction_buttons)
           \/ actions /\ pressed(joypad.action_buttons)
        THEN 0 ELSE 1

\* C26: a read of 0xFF00 shows each button of a selected row as 0 if pressed and 1
\* if released, also when both rows are selected, and low nibble 0xF when no row is
\* selected; a write to 0xFF00 changes only the two select bits, never the buttons.
C26_JoypadMatrix ==
    /\ (op = "read_byte" /\ clock.addr = JOYP) =>
          \A i \in 0 .. 3 : (ret \div 2 ^ i) % 2 = joypad_line(mmu.joypad, i)
    /\ (op = "write_byte" /\ clock.addr = JOYP) =>
          mmu.joypad.select_buttons = BitAnd(ret, 48)

-----------------------------------------------------------------------------
(* Properties of the address arithmetic                                     *)

\* C27: for every PC, SP and opcode one execute step computes PC + 1, PC + 2, the
\* advanced PC and the addr + 1 of read_short / write_short modulo 2^16, so no step
\* faults on an integer overflow: a step that aborts would abort with wrapping
\* arithmetic as well.
C27_AddressesWrap ==
    (op = "abort" /\ Len(clock.trace) >= 1) =>
        execute_panics(Machine, last_call.opcode, FALSE)

-----------------------------------------------------------------------------
(* Properties of the accumulator arithmetic                                 *)

\* flag bit n of the CPU: 1 or 0
flag_now(n) == (cpu.f \div 2 ^ n) % 2

\* 1 for a true condition, 0 otherwise
bool(b) == IF b THEN 1 ELSE 0

\* C28: ADC A,v for every A, v in 0..255 and carry c: the new A is (A+v+c) mod 256,
\* Z = (new A = 0), N = 0, H = ((A&0xF)+(v&0xF)+c) > 0xF, C = (A+v+c) > 0xFF, and
\* no other bit of F is set.
C28_AdcFlags ==
    op = "adc" =>
        LET a == last_call.cpu.a
            v == last_call.arg_u16
            c == (last_call.cpu.f \div 16) % 2
        IN  /\ cpu.a = (a + v + c) % 256
            /\ flag_now(Zero) = bool(cpu.a = 0)
            /\ flag_now(Sub) = 0
            /\ flag_now(HalfCarry) = bool((a % 16) + (v % 16) + c > 15)
            /\ flag_now(Carry) = bool(a + v + c > 255)
            /\ cpu.f % 16 = 0

\* ADC A,0x00 with A = 0x0F and the carry set has given A = 0x10 with only H set
C28_Witness ==
    /\ op = "adc" /\ last_call.cpu.a = 15 /\ last_call.cpu.f = 16 /\ last_call.arg_u16 = 0
    /\ cpu.a = 16 /\ cpu.f = 32

\* the number a packed BCD byte stands for, and the packed BCD byte of a number
bcd_value(byte) == 10 * (byte \div 16) + (byte % 16)
bcd_byte(n) == 16 * (n \div 10) + (n % 10)

\* C29: for packed BCD a and b, ADD A,b then DAA leaves A the packed BCD of
\* (a+b) mod 100 with C = (a+b > 99), and SUB b then DAA leaves A the packed BCD of
\* (a-b) mod 100 with C = (a < b); after DAA Z = (A = 0), H = 0 and N is unchanged.
C29_DaaCorrects ==
    op = "daa" =>
        LET a == bcd_value(call_before.cpu.a)
            b == bcd_value(call_before.arg_u16)
        IN  /\ call_before.opcode = 198 =>
                  /\ cpu.a = bcd_byte((a + b) % 100)
                  /\ flag_now(Carry) = bool(a + b > 99)
            /\ call_before.opcode = 214 =>
                  /\ cpu.a = bcd_byte((a - b + 100) % 100)
                  /\ flag_now(Carry) = bool(a < b)
            /\ flag_now(Zero) = bool(cpu.a = 0)
            /\ flag_now(HalfCarry) = 0
            /\ flag_now(Sub) = (last_call.cpu.f \div 64) % 2

\* SUB 0x34 from A = 0x12, then DAA, has left A = 0x78 (12 - 34 mod 100) with the
\* carry set and N kept
C29_Witness ==
    /\ op = "daa" /\ call_before.opcode = 214
    /\ call_before.cpu.a = 18 /\ call_before.arg_u16 = 52
    /\ cpu.a = 120 /\ flag_now(Carry) = 1 /\ flag_now(Sub) = 1

\* the scenario of C30 has run: ADD A,0x38 from A = 0x45, F = 0x00, and, when the
\* last call is DAA, the DAA after it
c30_added ==
    /\ op = "add_a" /\ last_call.cpu.a = 69 /\ last_call.cpu.f = 0
    /\ last_call.arg_u16 = 56

c30_adjusted ==
    /\ op = "daa" /\ call_before.opcode = 198 /\ call_before.cpu.a = 69
    /\ call_before.cpu.f = 0 /\ call_before.arg_u16 = 56

\* C30 as stated: from A = 0x45 and F = 0x00, ADD A,0x38 gives A = 0x7D with H = 1,
\* and DAA then gives A = 0x83 with Z = 0, H = 0, C = 0.
C30_ScenarioHalfSet ==
    /\ c30_added => (cpu.a = 125 /\ flag_now(HalfCarry) = 1)
    /\ c30_adjusted =>
          (cpu.a = 131 /\ flag_now(Zero) = 0 /\ flag_now(HalfCarry) = 0
              /\ flag_now(Carry) = 0)

\* C30 amended: from A = 0x45 and F = 0x00, ADD A,0x38 gives A = 0x7D with H = 0
\* (5 + 8 does not carry out of the low nibble), and DAA then gives A = 0x83 with
\* Z = 0, H = 0, C = 0.
C30_ScenarioHalfClear ==
    /\ c30_added => (cpu.a = 125 /\ flag_now(HalfCarry) = 0)
    /\ c30_adjusted =>
          (cpu.a = 131 /\ flag_now(Zero) = 0 /\ flag_now(HalfCarry) = 0
              /\ flag_now(Carry) = 0)

\* the DAA of the scenario has left A = 0x83
C30_Witness == c30_adjusted /\ cpu.a = 131 /\ cpu.f = 0

\* C31: for every SP and signed 8-bit e, ADD SP,e8 sets SP to (SP + e) mod 2^16 and
\* LD HL,SP+e8 sets HL to that value and leaves SP unchanged; both set Z = 0, N = 0,
\* H = ((SP&0xF)+(e&0xF)) > 0xF and C = ((SP&0xFF)+(e&0xFF)) > 0xFF on the unsigned
\* low byte of e, so both give the same flags for the same SP and e.
C31_SpRelative ==
    op \in {"add_sp", "ld_hl_sp"} =>
        LET sp == last_call.cpu.sp
            e == last_call.arg_u16
            signed == IF e >= 128 THEN e - 256 ELSE e
            sum == (sp + signed + 65536) % 65536
        IN  /\ op = "add_sp" => cpu.sp = sum
            /\ op = "ld_hl_sp" => (cpu.h * 256 + cpu.l = sum /\ cpu.sp = sp)
            /\ cpu.f = 32 * bool((sp % 16) + (e % 16) > 15)
                         + 16 * bool((sp % 256) + e > 255)

\* ADD SP,0x01 from SP = 0x000F has given SP = 0x0010 with only H set
C31_Witness ==
    /\ op = "add_sp" /\ last_call.cpu.sp = 15 /\ last_call.arg_u16 = 1
    /\ cpu.sp = 16 /\ cpu.f = 32

\* C32: Cart construction fails for every ROM image whose byte length is smaller
\* than the size declared by its ROM size code at 0x0148, and for ROM size codes
\* above 7 and RAM size codes above 3.
C32_ShortImageFails ==
    op = "from_rom" =>
        LET rom == clock.trace[1]
        IN  (\/ VecGet(rom, 328, 0) > 7
             \/ VecGet(rom, 329, 0) > 3
             \/ (VecGet(rom, 328, 0) <= 7 /\ ret < rom_size_bytes(VecGet(rom, 328, 0))))
                => panicked

\* the step is a PPU::update that leaves VRAM, and so renders the scanline LY when
\* the display is on; an abort inside it leaves the PPU where it was
renders ==
    /\ ppu.current_mode = "VRAM"
    /\ \/ op' = "update" /\ ppu'.current_mode = "HBlank"
       \/ op' = "abort" /\ clock'.steps = clock.steps

\* the byte of the frame buffer at index i after the step
pixel_after(i) == VecGet(ppu'.framebuffer, i, 255)

\* the window pixel at column x of scanline ly as the window is specified: its
\* origin on screen is WX - 7, and the tile map has 32 entries per row of tiles
window_pixel_at_origin(m, ly, x) ==
    LET lcdc == read_byte(m, LCDC)
        window_map_base ==
            IF bit_of(lcdc, WindowTileMapDisplaySelect) = 0 THEN 38912 ELSE 39936
        tile_data_base ==
            IF bit_of(lcdc, BackgroundAndWindowTileDataSelect) = 0 THEN 34816 ELSE 32768
        window_x == x - (read_byte(m, WX) - 7)
        window_y == ly - read_byte(m, WY)
        entry == window_map_base + (window_y \div 8) * 32 + (window_x \div 8)
    IN  tile_pixel(m, tile_data_address(tile_data_base, read_byte(m, entry)),
                   window_y % 8, window_x)

\* C33: when a scanline LY of the screen is rendered with the window enabled, every
\* column x with LY >= WY and x + 7 >= WX shows the window pixel at
\* window_x = x - (WX - 7), window_y = LY - WY, taken from the tile-map entry
\* window_map_base + (window_y / 8) * 32 + window_x / 8, and the computation of
\* window_x never underflows (the rendering does not abort).
C33_WindowCoordinates ==
    [][LET lcdc == read_byte(mmu, LCDC)
           ly == read_byte(mmu, LY)
       IN  (/\ renders
            /\ bit_of(lcdc, LCDDisplayEnable) = 1
            /\ bit_of(lcdc, WindowDisplayEnable) = 1
            /\ ly < SCREEN_HEIGHT)
           => /\ ~panicked'
              /\ \A x \in Columns :
                    (ly >= read_byte(mmu, WY) /\ x + 7 >= read_byte(mmu, WX))
                    => pixel_after(ly * SCREEN_WIDTH + x) = window_pixel_at_origin(mmu, ly, x)]_vars

\* byte k of OAM entry i: Y + 16, X + 8, tile, flags
oam_byte(m, i, k) == read_byte(m, 65024 + 4 * i + k)

\* the height of the sprites: LCDC bit 2
sprite_height(m) == IF bit_of(read_byte(m, LCDC), 2) = 1 THEN 16 ELSE 8

\* sprite i covers column x of scanline ly
sprite_covers(m, i, ly, x) ==
    LET top == oam_byte(m, i, 0) - 16
        left == oam_byte(m, i, 1) - 8
    IN  /\ top <= ly /\ ly < top + sprite_height(m)
        /\ left <= x /\ x < left + 8

\* the colour index of sprite i at column x of scanline ly: its tile from 0x8000,
\* the low bit of the tile cleared for the tall sprites, both flips respected
sprite_color_index(m, i, ly, x) ==
    LET flags == oam_byte(m, i, 3)
        height == sprite_height(m)
        dy == ly - (oam_byte(m, i, 0) - 16)
        dx == x - (oam_byte(m, i, 1) - 8)
        row == IF bit_of(flags, 6) = 1 THEN height - 1 - dy ELSE dy
        col == IF bit_of(flags, 5) = 1 THEN 7 - dx ELSE dx
        tile == IF height = 16 THEN oam_byte(m, i, 2) - (oam_byte(m, i, 2) % 2)
                ELSE oam_byte(m, i, 2)
        address == 32768 + tile * 16 + row * 2
    IN  bit_of(read_byte(m, address + 1), 7 - col) * 2
        + bit_of(read_byte(m, address), 7 - col)

\* the shade of a colour index under the palette of sprite i: flags bit 4 selects
\* OBP1
sprite_shade(m, i, color_index) ==
    LET palette == read_byte(m, IF bit_of(oam_byte(m, i, 3), 4) = 1 THEN OBP1 ELSE OBP0)
        sel == (palette \div (2 ^ (color_index * 2))) % 4
    IN  CASE sel = 0 -> 255 [] sel = 1 -> 170 [] sel = 2 -> 85 [] sel = 3 -> 0

\* C34: with LCDC bits 7 and 1 set, after scanline LY is rendered a pixel covered
\* by one sprite with the priority flag clear holds the shade of the sprite's
\* colour index under its palette when that index is not 0, and the pixel of the
\* background and window layers when it is 0.
C34_SpritePixels ==
    [][LET lcdc == read_byte(mmu, LCDC)
           ly == read_byte(mmu, LY)
           layers == draw_scanline(ppu.framebuffer, write_byte(mmu, LCDC, lcdc - 2), ly)
       IN  (/\ renders
            /\ op' = "update"
            /\ bit_of(lcdc, LCDDisplayEnable) = 1
            /\ bit_of(lcdc, ObjectDisplayEnable) = 1
            /\ ly < SCREEN_HEIGHT)
           => \A i \in 0 .. 39, x \in Columns :
                 (/\ sprite_covers(mmu, i, ly, x)
                  /\ bit_of(oam_byte(mmu, i, 3), 7) = 0
                  /\ \A j \in 0 .. 39 : sprite_covers(mmu, j, ly, x) => j = i)
                 => pixel_after(ly * SCREEN_WIDTH + x) =
                       IF sprite_color_index(mmu, i, ly, x) # 0
                       THEN sprite_shade(mmu, i, sprite_color_index(mmu, i, ly, x))
                       ELSE VecGet(layers, ly * SCREEN_WIDTH + x, 255)]_vars

\* the rendering of scanline ly stores to the frame buffer: the background is
\* enabled, or the window is and does not skip every column
stores_pixels(m, ly) ==
    LET lcdc == read_byte(m, LCDC)
    IN  \/ bit_of(lcdc, BackgroundWindowEnable) = 1
        \/ /\ bit_of(lcdc, WindowDisplayEnable) = 1
           /\ \E x \in Columns : ~window_skips(m, ly, x)

\* C39: whatever the guest stores to LY, LCDC, SCX, SCY, WX and WY between the
\* updates of the PPU, a rendering that stores to the frame buffer does so for a
\* scanline LY <= 143 and only at the indices LY * 160 .. LY * 160 + 159, never
\* at or past 160 * 144; and no step changes the frame buffer while the
\* LCD-enable bit of LCDC is 0.
C39_FramebufferWrites ==
    [][LET lcdc == read_byte(mmu, LCDC)
           ly == read_byte(mmu, LY)
       IN  /\ bit_of(lcdc, LCDDisplayEnable) = 0 => ppu'.framebuffer = ppu.framebuffer
           /\ (renders /\ bit_of(lcdc, LCDDisplayEnable) = 1 /\ stores_pixels(mmu, ly))
              => /\ ly <= SCREEN_HEIGHT - 1
                 /\ \A i \in (DOMAIN ppu.framebuffer) \cup (DOMAIN ppu'.framebuffer) :
                       pixel_after(i) # VecGet(ppu.framebuffer, i, 255)
                       => /\ i >= ly * SCREEN_WIDTH
                          /\ i <= ly * SCREEN_WIDTH + SCREEN_WIDTH - 1
                          /\ i < SCREEN_WIDTH * SCREEN_HEIGHT]_vars

\* the step is an execute call that runs the instruction `opcode`: the CPU was not
\* halted
runs(opcode) ==
    /\ op' = "execute"
    /\ ~cpu.halted
    /\ clock'.trace[Len(clock'.trace)].opcode = opcode

\* the step is a check_interrupts call that dispatches: it pushes PC
dispatches == op' = "check_interrupts" /\ cpu'.sp # cpu.sp

\* C35: IME changes only through EI (sets it), DI (clears it), RETI (sets it) and
\* an interrupt dispatch (clears it); a dispatch needs IME set and is the only one
\* of its check_interrupts call, so none follows before the next EI or RETI; and
\* check_interrupts with IME clear changes no state: registers, PC, SP, halted,
\* IF and the rest of memory.
C35_ImeChanges ==
    [][/\ (~cpu.ime /\ cpu'.ime) => (runs(251) \/ runs(217))
       /\ (cpu.ime /\ ~cpu'.ime) => (runs(243) \/ dispatches)
       /\ (runs(251) \/ runs(217)) => cpu'.ime
       /\ runs(243) => ~cpu'.ime
       /\ dispatches => /\ cpu.ime /\ ~cpu'.ime
                        /\ cpu'.sp = wrapping_sub16(cpu.sp, 2)
       /\ (op' = "check_interrupts" /\ ~cpu.ime) => (cpu' = cpu /\ mmu' = mmu)]_vars

\* an interrupt was dispatched to the VBlank vector and RETI has come back from it
C35_Witness ==
    /\ op = "execute"
    /\ Len(clock.trace) = 1
    /\ last_call.opcode = 217
    /\ last_call.cpu.pc = 64
    /\ ~last_call.cpu.ime
    /\ cpu.ime
    /\ cpu.pc = 256
    /\ clock.steps = 2

\* C36: while (IE & IF & 0x1F) = 0, whatever the bits 5..7 of IE and IF hold, an
\* execute step leaves a halted CPU halted and check_interrupts changes no state.
C36_UnusedBitsIgnored ==
    [][BitAnd(BitAnd(read_byte(mmu, InterruptEnable), read_byte(mmu, InterruptFlag)), 31) = 0
       => /\ (op' = "execute" /\ cpu.halted) => cpu'.halted
          /\ op' = "check_interrupts" => (cpu' = cpu /\ mmu' = mmu)]_vars

\* C38: a write of X to 0xFF46 changes the bytes of 0xFE00 .. 0xFE9F only: every
\* other byte of ram, the DMA register itself included, the cartridge with its
\* banking state, and the joypad with its select bits are what they were.
C38_DmaFrame ==
    [][op' = "write_dma" =>
          /\ \A addr \in ((DOMAIN mmu.ram) \cup (DOMAIN mmu'.ram)) \ (65024 .. 65183) :
                VecGet(mmu'.ram, addr, RamInit(addr)) = VecGet(mmu.ram, addr, RamInit(addr))
          /\ read_byte(mmu', 65350) = read_byte(mmu, 65350)
          /\ mmu'.cart = mmu.cart
          /\ mmu'.joypad = mmu.joypad]_vars

\* a transfer from page 0xC1 has filled OAM with a byte of work RAM while the DMA
\* register and the byte stored next to it kept their values
C38_Witness ==
    /\ op = "write_dma" /\ ret = 193
    /\ read_byte(mmu, 65024) = 32
    /\ read_byte(mmu, 65350) = 0
    /\ read_byte(mmu, 65351) = 171

\* the lowest of the five interrupt bits set in both IE and IF of memory m, 5 when
\* there is none
pending_bit(m) ==
    LET both == BitAnd(read_byte(m, InterruptEnable), read_byte(m, InterruptFlag))
    IN  IF both % 32 = 0 THEN 5
        ELSE CHOOSE b \in 0 .. 4 : bit_of(both, b) = 1 /\ \A k \in 0 .. b - 1 : bit_of(both, k) = 0

\* the registers no interrupt dispatch touches
data_registers(c) == <<c.a, c.f, c.b, c.c, c.d, c.e, c.h, c.l>>

\* C37: a CPU halted by the HALT at p waits with PC = p + 1.  Once an enabled
\* interrupt is pending with IME set, the next iteration of the scheduler leaves
\* HALT and dispatches it: the return address pushed is p + 1 and the instruction
\* at p + 1 has not run (the data registers are unchanged).  An iteration that
\* runs RETI with no enabled interrupt pending sets PC to the address on the
\* stack, moves SP back by 2 and sets IME.
C37_HaltWakesAndReturns ==
    [][op' = "run" =>
          /\ cpu.halted => read_byte(mmu, wrapping_sub16(cpu.pc, 1)) = 118
          /\ (cpu.halted /\ cpu.ime /\ pending_bit(mmu) < 5)
             => /\ ~cpu'.halted /\ ~cpu'.ime
                /\ cpu'.pc = vector(pending_bit(mmu))
                /\ cpu'.sp = wrapping_sub16(cpu.sp, 2)
                /\ read_short(mmu', cpu'.sp) = cpu.pc
                /\ data_registers(cpu') = data_registers(cpu)
          /\ (~cpu.halted /\ read_byte(mmu, cpu.pc) = 217 /\ pending_bit(mmu) = 5)
             => /\ cpu'.pc = read_short(mmu, cpu.sp)
                /\ cpu'.sp = wrapping_add16(cpu.sp, 2)
                /\ cpu'.ime]_vars

\* the handler has returned to the instruction after the HALT at 0x010D: PC is
\* 0x010E with the CPU running, IME set, SP where it was and B not yet incremented
C37_Witness ==
    /\ op = "run"
    /\ read_byte(mmu, 269) = 118
    /\ read_byte(mmu, 270) = 4
    /\ cpu.pc = 270 /\ ~cpu.halted /\ cpu.ime
    /\ cpu.sp = 65534 /\ cpu.b = 0
    /\ read_short(mmu, 65532) = 270

=============================================================================
